---- MODULE Spec2Model ----
(***************************************************************************)
(* dir-mover: the migration pipeline (migration_service.rs,                *)
(* file_operations.rs) and the directory scanner (disk_analyzer.rs) as     *)
(* state machines over an explicit filesystem.                             *)
(*                                                                         *)
(* A path is a sequence of names below the root <<>>.  The filesystem is   *)
(* a function from the paths that exist to nodes; a node is a directory,   *)
(* a regular file (size in KiB and a content tag) or a symbolic link.      *)
(* Sizes are in KiB so that the 20 GiB / 100 GB thresholds of the code fit *)
(* the model checker's integers.                                           *)
(***************************************************************************)
EXTENDS Integers, Sequences, FiniteSets, TLC

VARIABLES
    fs,            \* the filesystem: [existing path -> node]
    windows,       \* TRUE: the Windows build (cfg(target_os = "windows"))
    cancel_flag,   \* FileOperator.cancel_flag
    pc,            \* position of migrate_folder
    opts,          \* MigrationOptions of the call in flight
    todo,          \* copy_directory: stack of <<source entry, target entry>> still to copy
    symlink_path,  \* migrate_folder's local symlink_path (NoPath for None)
    result,        \* MigrationResult of the last call (NoResult while running)
    issued,        \* history: the steps the call in flight has executed
    faults,        \* history: the refusals and interferences the call has met
    pre,           \* history: the filesystem when migrate_folder was called
    verified,      \* history: the filesystem Verify looked at
    migrations,    \* number of migrate_folder calls so far
    analyzer,      \* DiskAnalyzer: max_depth, large_folder_threshold, is_c_drive_mode
    scan_cancel,   \* DiskAnalyzer.cancel_flag
    progress,      \* DiskAnalyzer.progress_info (ScanProgress)
    scan_pc,       \* position of scan_directory: "idle", "call", "loop", "done"
    call,          \* the recursive call about to start: [path, depth]
    stack,         \* the directories being scanned, innermost first
    scan_result,   \* what scan_directory returned
    scans,         \* number of scan_directory calls so far
    called_cancelled,  \* history: the cancel flag was set when the scan was called
    unread,        \* history: the directories whose read_dir failed in this scan
    op_last,       \* the last direct call of a FileOperator method and its result
    ops,           \* number of direct calls of FileOperator methods so far
    config,        \* ErrorRecoveryManager.config
    backup_registry,   \* ErrorRecoveryManager.backup_registry: backup id -> BackupInfo
    recovery_states,   \* ErrorRecoveryManager.recovery_states: operation id -> RecoveryState
    now,           \* Local::now(): hours for the manager, ticks for the logger, weeks for the log directory
    uuids,         \* number of backup ids drawn so far (Uuid::new_v4)
    rpc,           \* position of handle_error: "idle", "retry", "attempt"
    rstate,        \* handle_error's local recovery_state, with the call's arguments
    outcome,       \* what the last call of the manager returned, and what it met
    recoveries,    \* number of handle_error calls so far
    journal,       \* the operation log file: the records appended, oldest first
    logs,          \* the OperationLog values the callers hold: id -> OperationLog
    checked,       \* the last direct call of a pre-check of MigrationService and its answer
    appdata,       \* the AppDataAnalyzer: its config, its scan cache, the last report
    lock,          \* AppState.disk_analyzer's mutex: "free" or the command holding it
    commands,      \* the positions of the scan_directory, stop_scan and get_scan_progress commands
    batch,         \* the SmartBatchProcessor: its queue and the get_optimized_batch call
    appmig,        \* the migrate_appdata_items command: its options, loop and counters
    log_files      \* the files of the log directory: [name, modified]

mvars == <<fs, windows, cancel_flag, pc, opts, todo, symlink_path, result, issued,
           faults, pre, verified, migrations>>
svars == <<analyzer, scan_cancel, progress, scan_pc, call, stack, scan_result, scans,
           called_cancelled, unread>>
\* a FileOperator in direct use
ovars == <<op_last, ops>>
\* the ErrorRecoveryManager
rvars == <<config, backup_registry, recovery_states, now, uuids, rpc, rstate, outcome,
           recoveries>>
\* the OperationLogger
lvars == <<journal, logs>>
\* the rest of the application: commands, AppData analyzer, batch processor,
\* application logger
avars == <<checked, appdata, lock, commands, batch, appmig, log_files>>
xvars == <<ovars, rvars, lvars, avars>>
vars == <<mvars, svars, xvars>>

-----------------------------------------------------------------------------
(* Bounds *)

\* Longest path (in components) the filesystem accepts; a longer one is the
\* OS's "name too long" I/O error.
MaxDepth == 6
\* Number of migrate_folder calls in one behaviour.
MaxMigrations == 1
\* Number of scan_directory calls in one behaviour.
MaxScans == 2
\* Symbolic links followed while resolving one path (ELOOP beyond).
MaxLinks == 2

-----------------------------------------------------------------------------
(* Strings *)

Min(a, b) == IF a < b THEN a ELSE b

\* str::contains
Contains(s, sub) ==
    \E i \in 1..(Len(s) - Len(sub) + 1) : SubSeq(s, i, i + Len(sub) - 1) = sub

\* str::starts_with
StartsWith(s, prefix) ==
    Len(s) >= Len(prefix) /\ SubSeq(s, 1, Len(prefix)) = prefix

\* str::ends_with
EndsWith(s, suffix) ==
    Len(s) >= Len(suffix) /\ SubSeq(s, Len(s) - Len(suffix) + 1, Len(s)) = suffix

UpperOf ==
    [a |-> "A", b |-> "B", c |-> "C", d |-> "D", e |-> "E", f |-> "F", g |-> "G",
     h |-> "H", i |-> "I", j |-> "J", k |-> "K", l |-> "L", m |-> "M", n |-> "N",
     o |-> "O", p |-> "P", q |-> "Q", r |-> "R", s |-> "S", t |-> "T", u |-> "U",
     v |-> "V", w |-> "W", x |-> "X", y |-> "Y", z |-> "Z"]

RECURSIVE ToUpper(_)
\* str::to_uppercase
ToUpper(s) ==
    IF s = "" THEN ""
    ELSE LET c == SubSeq(s, 1, 1)
         IN (IF c \in DOMAIN UpperOf THEN UpperOf[c] ELSE c)
                \o ToUpper(SubSeq(s, 2, Len(s)))

-----------------------------------------------------------------------------
(* Paths *)

Root == <<>>
NoPath == <<"<none>">>      \* "this path does not resolve"

Front(p) == SubSeq(p, 1, Len(p) - 1)
Last(p) == p[Len(p)]

\* Path::parent: None for the root
HasParent(p) == p # Root
\* Path::join with one component
Join(p, name) == Append(p, name)

\* Path::starts_with, component by component
PathStartsWith(p, base) ==
    Len(p) >= Len(base) /\ SubSeq(p, 1, Len(base)) = base

\* a drive prefix: a letter and a colon
IsDrive(name) == Len(name) = 2 /\ SubSeq(name, 2, 2) = ":"

RECURSIVE PathStr(_)
\* Path::to_string_lossy / display of an absolute path; a path whose first
\* component is a drive (a letter and a colon) is a Windows path
PathStr(p) ==
    IF p = Root THEN "/"
    ELSE IF Len(p) = 1 THEN (IF IsDrive(p[1]) THEN p[1] \o "\\" ELSE "/" \o p[1])
    ELSE IF IsDrive(p[1])
    THEN PathStr(Front(p)) \o (IF Len(p) = 2 THEN "" ELSE "\\") \o Last(p)
    ELSE PathStr(Front(p)) \o "/" \o Last(p)

-----------------------------------------------------------------------------
(* The filesystem *)

DirNode == [kind |-> "dir", size |-> 0, data |-> "", to |-> Root]
FileNode(sz, d) == [kind |-> "file", size |-> sz, data |-> d, to |-> Root]
LinkNode(t) == [kind |-> "link", size |-> 0, data |-> "", to |-> t]

Exists0(f, p) == p = Root \/ p \in DOMAIN f
KindAt(f, p) == IF p = Root THEN "dir" ELSE f[p].kind

RECURSIVE ResolveFrom(_, _, _, _)
\* The location a path names once every symbolic link on it is followed
\* (fs::canonicalize); NoPath when a component is missing, is a file in the
\* middle of the path, or too many links are followed.
ResolveFrom(f, base, rest, fuel) ==
    IF rest = <<>> THEN base
    ELSE LET p == Append(base, Head(rest))
         IN IF ~Exists0(f, p) THEN NoPath
            ELSE IF f[p].kind = "link"
                 THEN IF fuel = 0 THEN NoPath
                      ELSE ResolveFrom(f, Root, f[p].to \o Tail(rest), fuel - 1)
            ELSE IF f[p].kind = "file" /\ Tail(rest) # <<>> THEN NoPath
            ELSE ResolveFrom(f, p, Tail(rest), fuel)

Canonicalize(f, p) == ResolveFrom(f, Root, p, MaxLinks)

\* The location of the entry a path names, its own last component not
\* followed (what rename, remove_dir, remove_file and symlink act on).
EntryLoc(f, p) ==
    IF p = Root THEN Root
    ELSE LET par == Canonicalize(f, Front(p))
         IN IF par = NoPath THEN NoPath ELSE Append(par, Last(p))

\* Path::exists, Path::is_dir, Path::is_file: all follow links
PathExists(f, p) == Canonicalize(f, p) # NoPath
IsDir(f, p) == PathExists(f, p) /\ KindAt(f, Canonicalize(f, p)) = "dir"
IsFile(f, p) == PathExists(f, p) /\ KindAt(f, Canonicalize(f, p)) = "file"
\* the entry itself is a symbolic link
IsLink(f, p) ==
    /\ p # Root
    /\ EntryLoc(f, p) # NoPath
    /\ EntryLoc(f, p) \in DOMAIN f
    /\ f[EntryLoc(f, p)].kind = "link"

\* The number of entries of the crowded directory of the model
ManyEntries == 200

\* The names of the entries of a crowded directory
ManyNames == [i \in 1..ManyEntries |-> "e" \o ToString(i)]

\* Every name the model uses, in the order directory listings return them.
NameOrder ==
    <<".write_test.tmp", "a", "a.backup", "aux", "b", "b?", "big", "d1", "d2", "f", "f1",
      "f2", "f3", "g", "m", "n", "p", "q", "s", "sub", "t">> \o ManyNames

\* fs::read_dir: the names in a directory (the directory taken through links)
ReadDir(f, p) ==
    LET d == Canonicalize(f, p)
    IN SelectSeq(NameOrder, LAMBDA n : Append(d, n) \in DOMAIN f)

\* the paths strictly below a location
Below(f, loc) == {x \in DOMAIN f : Len(x) > Len(loc) /\ PathStartsWith(x, loc)}

\* f without the paths in gone
Without(f, gone) == [x \in (DOMAIN f) \ gone |-> f[x]]
\* f with path x holding node nd
With(f, x, nd) == [y \in (DOMAIN f) \cup {x} |-> IF y = x THEN nd ELSE f[y]]

-----------------------------------------------------------------------------
(* std::fs primitives.  Each returns [ok, fs]: whether it succeeded and the
   filesystem it leaves.  io_ok = FALSE is the operating system refusing the
   call (an I/O error the caller cannot foresee). *)

Ok(f) == [ok |-> TRUE, fs |-> f]
Fail(f) == [ok |-> FALSE, fs |-> f]

RECURSIVE MkdirAll(_, _)
\* fs::create_dir_all
MkdirAll(f, p) ==
    IF p = Root \/ IsDir(f, p) THEN Ok(f)
    ELSE IF Len(p) > MaxDepth THEN Fail(f)
    ELSE LET r == MkdirAll(f, Front(p))
         IN IF ~r.ok THEN r
            ELSE LET loc == EntryLoc(r.fs, p)
                 IN IF loc = NoPath \/ loc \in DOMAIN r.fs THEN Fail(r.fs)
                    ELSE Ok(With(r.fs, loc, DirNode))

\* fs::copy: the bytes of src written to dst (created, or truncated)
FsCopy(f, src, dst, io_ok) ==
    LET from == Canonicalize(f, src)
        loc == IF PathExists(f, dst) THEN Canonicalize(f, dst) ELSE EntryLoc(f, dst)
    IN IF \/ ~io_ok
          \/ ~IsFile(f, src)
          \/ loc = NoPath
          \/ Len(dst) > MaxDepth
          \/ (loc \in DOMAIN f /\ f[loc].kind # "file")
       THEN Fail(f)
       ELSE Ok(With(f, loc, FileNode(f[from].size, f[from].data)))

\* fs::write: the file created, or truncated, and the bytes written
FsWrite(f, p, sz, d, io_ok) ==
    LET loc == IF PathExists(f, p) THEN Canonicalize(f, p) ELSE EntryLoc(f, p)
    IN IF \/ ~io_ok
          \/ loc = NoPath
          \/ (loc \in DOMAIN f /\ f[loc].kind # "file")
       THEN Fail(f)
       ELSE Ok(With(f, loc, FileNode(sz, d)))

\* fs::remove_file: a file, or a symbolic link itself; on Windows a
\* directory link is not removable as a file
RemoveFile(f, p, win) ==
    LET loc == EntryLoc(f, p)
    IN IF loc = NoPath \/ loc \notin DOMAIN f THEN Fail(f)
       ELSE IF f[loc].kind = "file" THEN Ok(Without(f, {loc}))
       ELSE IF f[loc].kind = "link" /\ ~win THEN Ok(Without(f, {loc}))
       ELSE Fail(f)

\* fs::remove_dir: an empty directory; a link is "not a directory" on Unix,
\* and a directory link is removed on Windows
RemoveDir(f, p, win) ==
    LET loc == EntryLoc(f, p)
    IN IF loc = NoPath \/ loc \notin DOMAIN f THEN Fail(f)
       ELSE IF f[loc].kind = "dir" /\ Below(f, loc) = {} THEN Ok(Without(f, {loc}))
       ELSE IF f[loc].kind = "link" /\ win THEN Ok(Without(f, {loc}))
       ELSE Fail(f)

\* fs::rename of the entry at from (with everything below it) to the free
\* name to
FsRename(f, from, to, io_ok) ==
    LET a == EntryLoc(f, from)
        b == EntryLoc(f, to)
        moved == {a} \cup Below(f, a)
        NewName(x) == b \o SubSeq(x, Len(a) + 1, Len(x))
    IN IF \/ ~io_ok
          \/ a = NoPath \/ a = Root \/ a \notin DOMAIN f
          \/ b = NoPath \/ b \in DOMAIN f
          \/ Len(to) > MaxDepth
       THEN Fail(f)
       ELSE Ok([y \in ((DOMAIN f) \ moved) \cup {NewName(x) : x \in moved} |->
                  IF y \in (DOMAIN f) \ moved THEN f[y]
                  ELSE f[a \o SubSeq(y, Len(b) + 1, Len(y))]])

\* symlink / symlink_dir: a new link at link_path whose text is target
FsSymlink(f, target, link_path, io_ok) ==
    LET loc == EntryLoc(f, link_path)
    IN IF ~io_ok \/ loc = NoPath \/ loc = Root \/ loc \in DOMAIN f THEN Fail(f)
       ELSE Ok(With(f, loc, LinkNode(target)))

-----------------------------------------------------------------------------
(* FileOperator (file_operations.rs) *)

\* validate_path: Ok unless the path is empty or holds both ".." and "..."
ValidatePath(p) ==
    LET str == PathStr(p)
    IN str # "" /\ ~(Contains(str, "..") /\ Contains(str, "..."))

\* copy_file
CopyFile(f, src, dst, io_ok) ==
    LET d == IF HasParent(dst) THEN MkdirAll(f, Front(dst)) ELSE Ok(f)
    IN IF ~d.ok THEN d ELSE FsCopy(d.fs, src, dst, io_ok)

\* recursion allowed to delete_directory_contents and calculate_directory_size
\* (a tree is no deeper than the longest path, plus the links on it)
Fuel == MaxDepth + MaxLinks + 1

RECURSIVE DeleteEntries(_, _, _, _, _)
\* delete_directory_contents, the loop over the entries `names` of `path`
DeleteEntries(f, path, names, win, fuel) ==
    IF names = <<>> THEN Ok(f)
    ELSE LET e == Join(path, Head(names))
             r == IF IsDir(f, e)
                  THEN LET c == IF fuel = 0 THEN Fail(f)
                                ELSE DeleteEntries(f, e, ReadDir(f, e), win, fuel - 1)
                       IN IF c.ok THEN RemoveDir(c.fs, e, win) ELSE c
                  ELSE RemoveFile(f, e, win)
         IN IF r.ok THEN DeleteEntries(r.fs, path, Tail(names), win, fuel) ELSE r

\* delete_directory_contents
DeleteDirectoryContents(f, path, win) ==
    DeleteEntries(f, path, ReadDir(f, path), win, Fuel)

\* delete_directory: the contents, then the directory itself
DeleteDirectory(f, path, win) ==
    LET c == DeleteDirectoryContents(f, path, win)
    IN IF c.ok THEN RemoveDir(c.fs, path, win) ELSE c

\* delete_path: [ok, fs, err]
DeletePath(f, path, cancelled, win, io_ok) ==
    IF ~ValidatePath(path) THEN [ok |-> FALSE, fs |-> f, err |-> "InvalidPath"]
    ELSE IF ~PathExists(f, path) THEN [ok |-> FALSE, fs |-> f, err |-> "PathNotFound"]
    ELSE IF cancelled THEN [ok |-> FALSE, fs |-> f, err |-> "OperationCancelled"]
    ELSE IF ~io_ok THEN [ok |-> FALSE, fs |-> f, err |-> "IoError"]
    ELSE LET r == IF IsDir(f, path) THEN DeleteDirectory(f, path, win)
                  ELSE RemoveFile(f, path, win)
         IN [ok |-> r.ok, fs |-> r.fs, err |-> IF r.ok THEN "" ELSE "IoError"]

\* create_symlink: [ok, fs, err]
CreateSymlink(f, target, link_path, cancelled, io_ok) ==
    IF ~ValidatePath(target) \/ ~ValidatePath(link_path)
    THEN [ok |-> FALSE, fs |-> f, err |-> "InvalidPath"]
    ELSE IF ~PathExists(f, target) THEN [ok |-> FALSE, fs |-> f, err |-> "PathNotFound"]
    ELSE IF PathExists(f, link_path)
    THEN [ok |-> FALSE, fs |-> f, err |-> "PathAlreadyExists"]
    ELSE IF cancelled THEN [ok |-> FALSE, fs |-> f, err |-> "OperationCancelled"]
    ELSE LET d == IF HasParent(link_path) THEN MkdirAll(f, Front(link_path)) ELSE Ok(f)
             r == IF d.ok THEN FsSymlink(d.fs, target, link_path, io_ok) ELSE d
         IN [ok |-> r.ok, fs |-> r.fs, err |-> IF r.ok THEN "" ELSE "IoError"]

RECURSIVE SizeEntries(_, _, _, _)
\* estimate_directory_size / calculate_directory_size, the loop over the
\* entries `names` of `path`: [ok, size]
SizeEntries(f, path, names, fuel) ==
    IF names = <<>> THEN [ok |-> TRUE, size |-> 0]
    ELSE LET e == Join(path, Head(names))
             one == IF IsDir(f, e)
                    THEN IF fuel = 0 THEN [ok |-> FALSE, size |-> 0]
                         ELSE SizeEntries(f, e, ReadDir(f, e), fuel - 1)
                    ELSE [ok |-> TRUE, size |-> f[EntryLoc(f, e)].size]
             rest == SizeEntries(f, path, Tail(names), fuel)
         IN [ok |-> one.ok /\ rest.ok, size |-> one.size + rest.size]

\* estimate_directory_size: [ok, size]
EstimateDirectorySize(f, path) ==
    IF ~PathExists(f, path) THEN [ok |-> FALSE, size |-> 0]
    ELSE IF IsFile(f, path) THEN [ok |-> TRUE, size |-> f[Canonicalize(f, path)].size]
    ELSE SizeEntries(f, path, ReadDir(f, path), Fuel)

\* 100 GB, in KiB
HundredGB == 1024 * 1024 * 100

\* validate_migration_path: the message it returns
ValidateMigrationPath(f, source, target) ==
    LET tparent == IF HasParent(target) THEN Front(target) ELSE target
        sc == Canonicalize(f, source)
        tc == Canonicalize(f, tparent)
        sz == EstimateDirectorySize(f, source)
    IN IF ~ValidatePath(source) \/ ~ValidatePath(target) THEN "invalid_path"
       ELSE IF ~PathExists(f, source) THEN "source_missing"
       ELSE IF PathExists(f, target) THEN "target_exists"
       ELSE IF sc # NoPath /\ tc # NoPath /\ PathStartsWith(sc, tc)
       THEN "into_subdirectory"
       ELSE IF /\ sz.ok
               /\ HasParent(target)
               /\ PathExists(f, Front(target))
               /\ sz.size > HundredGB
       THEN "source_too_large"
       ELSE "ok"

-----------------------------------------------------------------------------
(* DiskAnalyzer (disk_analyzer.rs), the part the pipeline uses *)

\* calculate_directory_size: [ok, size]
CalculateDirectorySize(f, path) == SizeEntries(f, path, ReadDir(f, path), Fuel)

\* get_directory_info: [ok, size]
GetDirectoryInfo(f, path) ==
    IF ~PathExists(f, path) THEN [ok |-> FALSE, size |-> 0]
    ELSE IF IsDir(f, path) THEN CalculateDirectorySize(f, path)
    ELSE [ok |-> TRUE, size |-> f[Canonicalize(f, path)].size]

-----------------------------------------------------------------------------
(* MigrationService (migration_service.rs): the pre-checks *)

InvalidChars == <<"<", ">", ":", "*", "?", "|">>

ReservedNames ==
    {"CON", "PRN", "AUX", "NUL", "COM1", "COM2", "COM3", "COM4", "COM5",
     "COM6", "COM7", "COM8", "COM9", "LPT1", "LPT2", "LPT3", "LPT4",
     "LPT5", "LPT6", "LPT7", "LPT8", "LPT9"}

\* path length limit of validate_path_security
MaxPathLen == 260

\* Path::file_name as a string ("" when there is none)
FileName(p) == IF p = Root THEN "" ELSE Last(p)

\* validate_path_security: "ok" or the rule that rejects
ValidatePathSecurity(source, target, win) ==
    LET ss == PathStr(source)
        ts == PathStr(target)
    IN IF Contains(ss, "..") \/ Contains(ts, "..") THEN "parent_reference"
       ELSE IF \E i \in 1..Len(InvalidChars) :
                   Contains(ss, InvalidChars[i]) \/ Contains(ts, InvalidChars[i])
       THEN "invalid_char"
       ELSE IF /\ win
               /\ \/ ToUpper(FileName(source)) \in ReservedNames
                  \/ ToUpper(FileName(target)) \in ReservedNames
       THEN "reserved_name"
       ELSE IF Len(ss) > MaxPathLen \/ Len(ts) > MaxPathLen THEN "too_long"
       ELSE "ok"

\* has_read_permission
HasReadPermission(f, path) == PathExists(f, path) /\ IsDir(f, path)

RECURSIVE HasWritePermission(_, _, _, _)
\* has_write_permission: [ok, fs].  The probe writes "test" to
\* <dir>/.write_test.tmp with fs::write and then removes that file.
HasWritePermission(f, path, win, wr_ok) ==
    IF ~PathExists(f, path)
    THEN IF HasParent(path) THEN HasWritePermission(f, Front(path), win, wr_ok)
         ELSE Fail(f)
    ELSE LET temp_file == Join(path, ".write_test.tmp")
             w == FsWrite(f, temp_file, 0, "test", wr_ok /\ IsDir(f, path))
         IN IF w.ok THEN Ok(RemoveFile(w.fs, temp_file, win).fs) ELSE Fail(f)

\* check_permissions: [ok, fs]
CheckPermissions(f, source, target, win, wr_ok) ==
    IF ~HasReadPermission(f, source) THEN Fail(f)
    ELSE HasWritePermission(f, IF HasParent(target) THEN Front(target) ELSE target,
                            win, wr_ok)

\* estimate_required_space: the source's size, or 1 GiB when it cannot be had
EstimateRequiredSpace(f, path) ==
    LET info == GetDirectoryInfo(f, path)
    IN IF info.ok THEN info.size ELSE 1024 * 1024

\* get_available_space: a guess from the drive letter, in KiB
GetAvailableSpace(path) ==
    LET str == PathStr(path)
    IN IF StartsWith(str, "C:\\") THEN 50 * 1024 * 1024
       ELSE IF StartsWith(str, "D:\\") THEN 100 * 1024 * 1024
       ELSE 20 * 1024 * 1024

\* check_disk_space: the source plus 20% must fit the available space
CheckDiskSpace(f, source, target) ==
    LET required_space == EstimateRequiredSpace(f, source)
        required_with_buffer == required_space + (required_space \div 5)
    IN required_with_buffer <= GetAvailableSpace(target)

SystemPaths ==
    <<"C:\\Windows", "C:\\Program Files", "C:\\Program Files (x86)",
      "C:\\Users\\Default", "C:\\Recovery", "C:\\System Volume Information",
      "C:\\$Recycle.Bin">>

ProgramPaths == <<"C:\\PROGRAM FILES", "C:\\PROGRAM FILES (X86)", "C:\\USERS\\">>

SystemFiles == <<"pagefile.sys", "hiberfil.sys", "swapfile.sys">>

\* is_program_installation_directory
IsProgramInstallationDirectory(f, path) ==
    LET str == ToUpper(PathStr(path))
        names == ReadDir(f, path)
    IN /\ \E i \in 1..Len(ProgramPaths) : StartsWith(str, ProgramPaths[i])
       /\ IsDir(f, path)
       /\ \E j \in 1..Len(names) : EndsWith(names[j], ".exe") \/ EndsWith(names[j], ".dll")

\* check_system_protection: the upper-cased paths against the lists as written
CheckSystemProtection(f, source, target) ==
    LET ss == ToUpper(PathStr(source))
        ts == ToUpper(PathStr(target))
    IN /\ \A i \in 1..Len(SystemPaths) :
              ~StartsWith(ss, SystemPaths[i]) /\ ~StartsWith(ts, SystemPaths[i])
       /\ ~IsProgramInstallationDirectory(f, source)
       /\ ~IsProgramInstallationDirectory(f, target)
       /\ \A i \in 1..Len(SystemFiles) :
              ~Contains(ss, SystemFiles[i]) /\ ~Contains(ts, SystemFiles[i])

\* pre_migration_check: [ok, check, reason, fs], the five checks in order
PreMigrationCheck(f, source, target, win, wr_ok) ==
    LET sec == ValidatePathSecurity(source, target, win)
        val == ValidateMigrationPath(f, source, target)
        perm == CheckPermissions(f, source, target, win, wr_ok)
    IN IF sec # "ok"
       THEN [ok |-> FALSE, check |-> "security", reason |-> sec, fs |-> f]
       ELSE IF val # "ok"
       THEN [ok |-> FALSE, check |-> "validation", reason |-> val, fs |-> f]
       ELSE IF ~perm.ok
       THEN [ok |-> FALSE, check |-> "permission", reason |-> "", fs |-> perm.fs]
       ELSE IF ~CheckDiskSpace(perm.fs, source, target)
       THEN [ok |-> FALSE, check |-> "disk_space", reason |-> "", fs |-> perm.fs]
       ELSE IF ~CheckSystemProtection(perm.fs, source, target)
       THEN [ok |-> FALSE, check |-> "system_protection", reason |-> "", fs |-> perm.fs]
       ELSE [ok |-> TRUE, check |-> "", reason |-> "", fs |-> perm.fs]

-----------------------------------------------------------------------------
(* MigrationService: Verify *)

\* verify_key_files looks at the first entries of the source directory only
KeyFileLimit == 10

RECURSIVE KeyEntriesPresent(_, _, _, _, _)
\* verify_key_files, the loop over the entries `names` of `source`
KeyEntriesPresent(f, source, target, names, fuel) ==
    \A i \in 1..Len(names) :
        LET se == Join(source, names[i])
            te == Join(target, names[i])
        IN /\ PathExists(f, te)
           /\ IsDir(f, se) =>
                 /\ fuel > 0
                 /\ KeyEntriesPresent(f, se, te,
                        SubSeq(ReadDir(f, se), 1, Min(KeyFileLimit, Len(ReadDir(f, se)))),
                        fuel - 1)

\* verify_key_files
VerifyKeyFiles(f, source, target) ==
    /\ IsDir(f, source)
    /\ KeyEntriesPresent(f, source, target,
           SubSeq(ReadDir(f, source), 1, Min(KeyFileLimit, Len(ReadDir(f, source)))),
           Fuel)

\* verify_copy_result: the target exists, the sizes differ by at most 10%
\* (size_diff / source_size * 100 > 10.0 rejects; a zero source size rejects
\* any difference), and the key files are there
VerifyCopyResult(f, source, target) ==
    LET si == GetDirectoryInfo(f, source)
        ti == GetDirectoryInfo(f, target)
        size_diff == IF si.size > ti.size THEN si.size - ti.size ELSE ti.size - si.size
    IN /\ PathExists(f, target)
       /\ si.ok
       /\ ti.ok
       /\ ~(size_diff * 100 > 10 * si.size)
       /\ VerifyKeyFiles(f, source, target)

-----------------------------------------------------------------------------
(* DiskAnalyzer: scan_directory as a state machine.  One action is one
   stretch of code between two reads of the cancel flag.  The node of a
   directory is [path, name, size, file_count, subdirectories,
   is_large_folder]; last_modified and size_percentage are left out, and so
   are the speed and the remaining time of ScanProgress, which depend on the
   clock. *)

\* MAX_ENTRIES_PER_DIR, and max_entries of scan_directory_optimized
MaxEntriesPerDir == 1000
\* max_entries at depth 0 when is_c_drive_mode
MaxEntriesCDriveRoot == 100
\* update_progress is called every this many entries
ProgressEvery == 100

NoProgress ==
    [current_path |-> "", processed_files |-> 0, total_files |-> 0, progress |-> 0,
     processed_directories |-> 0, total_directories |-> 0, current_directory |-> "",
     start_time |-> FALSE, large_folders_found |-> 0]

NoCall == [path |-> Root, depth |-> 0]
NoScanResult == [kind |-> "none"]
Cancelled == [kind |-> "cancelled"]

ScannerIdle ==
    /\ analyzer = [max_depth |-> 3, large_folder_threshold |-> 1024 * 1024,
                   is_c_drive_mode |-> FALSE]
    /\ scan_cancel = FALSE
    /\ progress = NoProgress
    /\ scan_pc = "idle"
    /\ call = NoCall
    /\ stack = <<>>
    /\ scan_result = NoScanResult
    /\ scans = 0
    /\ called_cancelled = FALSE
    /\ unread = {}

\* the node returned for a directory that is not read
Stub(path, name) ==
    [path |-> path, name |-> name, size |-> 0, file_count |-> 0,
     subdirectories |-> <<>>, is_large_folder |-> FALSE]

\* update_progress
UpdateProgress(pr, current_path, processed_files, total_files) ==
    [pr EXCEPT !.current_path = current_path,
               !.processed_files = processed_files,
               !.total_files = total_files,
               !.progress = IF total_files > 0
                            THEN (processed_files * 100) \div total_files ELSE 0]

\* update_directory_progress
UpdateDirectoryProgress(pr, current_directory, processed_dirs, total_dirs) ==
    [pr EXCEPT !.current_directory = current_directory,
               !.processed_directories = processed_dirs,
               !.total_directories = total_dirs]

\* increment_large_folders_found
IncrementLargeFoldersFound(pr) ==
    [pr EXCEPT !.large_folders_found = pr.large_folders_found + 1]

\* is_c_drive_path
IsCDrivePath(path) == StartsWith(ToUpper(PathStr(path)), "C:\\")

SystemDirs ==
    <<"C:\\Windows\\System32", "C:\\Windows\\SysWOW64",
      "C:\\Program Files\\Windows Defender", "C:\\$Recycle.Bin",
      "C:\\System Volume Information", "C:\\Recovery", "C:\\pagefile.sys",
      "C:\\hiberfil.sys">>

\* scan_c_drive_directory: the path is one of the directories it skips
IsSystemDir(path) ==
    \E i \in 1..Len(SystemDirs) :
        StartsWith(ToUpper(PathStr(path)), ToUpper(SystemDirs[i]))

RECURSIVE InsertBySize(_, _)
\* where a stable descending sort puts node after the sorted nodes of seq
InsertBySize(seq, node) ==
    IF seq = <<>> THEN <<node>>
    ELSE IF Last(seq).size >= node.size THEN Append(seq, node)
    ELSE Append(InsertBySize(Front(seq), node), Last(seq))

RECURSIVE SortBySizeDesc(_)
\* subdirectories.sort_by(|a, b| b.size.cmp(&a.size)): stable, largest first
SortBySizeDesc(seq) ==
    IF seq = <<>> THEN <<>>
    ELSE InsertBySize(SortBySizeDesc(Front(seq)), Last(seq))

\* the scan in flight runs scan_directory_optimized
Optimized(root) == analyzer.is_c_drive_mode \/ IsCDrivePath(root)

\* the frame of a directory whose entries are about to be read
NewFrame(path, depth) ==
    [path |-> path, depth |-> depth, entries |-> ReadDir(fs, path), entry_count |-> 0,
     processed_entries |-> 0, total_size |-> 0, file_count |-> 0,
     subdirectories |-> <<>>]

ScanRoot == IF stack = <<>> THEN call.path ELSE stack[Len(stack)].path

\* scan_directory is entered: the progress gets its start time and path, and
\* the scan is routed (disk_analyzer.rs 205-221, 237-278)
StartScan(path) ==
    /\ scan_pc \in {"idle", "done"}
    /\ scans < MaxScans
    /\ progress' = [progress EXCEPT !.start_time = TRUE, !.current_path = PathStr(path)]
    /\ scans' = scans + 1
    /\ IF Optimized(path) /\ IsSystemDir(path)
       THEN /\ scan_pc' = "done"
            /\ scan_result' = [kind |-> "tree", node |-> Stub(PathStr(path), FileName(path))]
            /\ call' = NoCall
       ELSE /\ scan_pc' = "call"
            /\ scan_result' = NoScanResult
            /\ call' = [path |-> path, depth |-> 0]
    /\ stack' = <<>>
    /\ called_cancelled' = scan_cancel
    /\ unread' = {}

\* scan_directory is called on the analyzer
ScanDirectory(path) ==
    /\ StartScan(path)
    /\ UNCHANGED <<analyzer, scan_cancel, mvars, xvars>>

\* a return of a node whose size the caller's loop does not add to its total
ReturnNodeSizeDropped(node, rest, pr) ==
    IF rest = <<>>
    THEN /\ scan_pc' = "done"
         /\ scan_result' = [kind |-> "tree", node |-> node]
         /\ stack' = <<>>
         /\ progress' = IF Optimized(ScanRoot) THEN pr
                        ELSE UpdateProgress(pr, PathStr(ScanRoot), node.file_count,
                                            node.file_count)
    ELSE /\ scan_pc' = "loop"
         /\ scan_result' = scan_result
         /\ stack' = <<[Head(rest) EXCEPT
                          !.file_count = @ + node.file_count + 1,
                          !.subdirectories = Append(@, node)]>> \o Tail(rest)
         /\ progress' = pr

\* a call of scan_directory_recursive / scan_directory_optimized ends with
\* Ok(node): the caller's loop adds it up, or scan_directory returns it
\* (525-530, 370-375, 221-233)
ReturnNode(node, rest, pr) ==
    IF rest = <<>>
    THEN /\ scan_pc' = "done"
         /\ scan_result' = [kind |-> "tree", node |-> node]
         /\ stack' = <<>>
         /\ progress' = IF Optimized(ScanRoot) THEN pr
                        ELSE UpdateProgress(pr, PathStr(ScanRoot), node.file_count,
                                            node.file_count)
    ELSE /\ scan_pc' = "loop"
         /\ scan_result' = scan_result
         /\ stack' = <<[Head(rest) EXCEPT
                          !.total_size = @ + node.size,
                          !.file_count = @ + node.file_count + 1,
                          !.subdirectories = Append(@, node)]>> \o Tail(rest)
         /\ progress' = pr

\* a call ends with Err: "cancelled" unwinds the whole scan; any other error
\* ends the scan at the root and is logged and skipped by a caller's loop
\* (531-537, 376-382)
ReturnError(kind, rest, pr) ==
    /\ progress' = pr
    /\ IF kind = "cancelled" \/ rest = <<>>
       THEN /\ scan_pc' = "done"
            /\ scan_result' = [kind |-> kind]
            /\ stack' = <<>>
       ELSE /\ scan_pc' = "loop"
            /\ scan_result' = scan_result
            /\ stack' = rest

\* what fs::read_dir can answer for the path: the entries, or an error that
\* is PermissionDenied, or an error of another kind (the only answer for a
\* path that is no directory)
ReadDirOutcomes(path) ==
    IF IsDir(fs, path) THEN {"ok", "denied", "error"} ELSE {"error"}

\* a directory call past its cancellation check, with the answer of read_dir:
\* a directory below max_depth is not read; scan_directory_recursive turns
\* every read error into an empty node, scan_directory_optimized only a
\* PermissionDenied one (439-487, 287-334)
ReadDirectory(read) ==
    LET pr == IF Optimized(ScanRoot) THEN progress
              ELSE UpdateDirectoryProgress(progress, PathStr(call.path), 0, 0)
        failed == [path |-> PathStr(call.path), depth |-> call.depth, kind |-> read]
    IN IF call.depth > analyzer.max_depth
       THEN /\ ReturnNode(Stub(PathStr(call.path), FileName(call.path)), stack, pr)
            /\ unread' = unread
       ELSE IF read = "error" /\ Optimized(ScanRoot)
       THEN /\ ReturnError("read_failed", stack, pr)
            /\ unread' = unread \cup {failed}
       ELSE IF read # "ok"
       THEN /\ ReturnNode(Stub(PathStr(call.path), FileName(call.path)), stack, pr)
            /\ unread' = unread \cup {failed}
       ELSE /\ stack' = <<NewFrame(call.path, call.depth)>> \o stack
            /\ scan_pc' = "loop"
            /\ progress' = pr
            /\ scan_result' = scan_result
            /\ unread' = unread

\* a start of a directory call that does not read the cancel flag
EnterDirectoryUnchecked ==
    /\ scan_pc = "call"
    /\ call' = NoCall
    /\ \E read \in ReadDirOutcomes(call.path) : ReadDirectory(read)
    /\ UNCHANGED <<analyzer, scan_cancel, scans, called_cancelled, mvars, xvars>>

\* the start of scan_directory_recursive (432-487) or
\* scan_directory_optimized (282-334), up to read_dir
EnterDirectory ==
    /\ scan_pc = "call"
    /\ call' = NoCall
    /\ IF scan_cancel THEN ReturnError("cancelled", stack, progress) /\ unread' = unread
       ELSE \E read \in ReadDirOutcomes(call.path) : ReadDirectory(read)
    /\ UNCHANGED <<analyzer, scan_cancel, scans, called_cancelled, mvars, xvars>>

\* one turn of the loop over the entries: the cancellation check, the cap on
\* the entries, the progress update, and then the entry: a file is added up,
\* a directory is the next call (494-551, 344-399)
NextEntry ==
    /\ scan_pc = "loop"
    /\ Head(stack).entries # <<>>
    /\ LET top == Head(stack)
           opt == Optimized(ScanRoot)
           max_entries == IF opt /\ analyzer.is_c_drive_mode /\ top.depth = 0
                          THEN MaxEntriesCDriveRoot ELSE MaxEntriesPerDir
           entry_path == Join(top.path, Head(top.entries))
           counted == [top EXCEPT !.entries = Tail(@),
                                  !.entry_count = @ + 1,
                                  !.processed_entries = IF opt THEN @ ELSE @ + 1]
           pr == IF ~opt /\ counted.processed_entries % ProgressEvery = 0
                 THEN UpdateProgress(progress, PathStr(top.path),
                                     counted.processed_entries, MaxEntriesPerDir)
                 ELSE progress
       IN IF scan_cancel
          THEN ReturnError("cancelled", stack, progress) /\ call' = call
          ELSE IF top.entry_count >= max_entries
          THEN /\ stack' = <<[top EXCEPT !.entries = <<>>]>> \o Tail(stack)
               /\ UNCHANGED <<scan_pc, call, progress, scan_result>>
          ELSE IF IsDir(fs, entry_path)
          THEN /\ stack' = <<counted>> \o Tail(stack)
               /\ scan_pc' = "call"
               /\ call' = [path |-> entry_path, depth |-> top.depth + 1]
               /\ progress' = pr
               /\ scan_result' = scan_result
          ELSE /\ stack' = <<[counted EXCEPT
                                !.total_size = @ + fs[EntryLoc(fs, entry_path)].size,
                                !.file_count = @ + 1]>> \o Tail(stack)
               /\ progress' = pr
               /\ UNCHANGED <<scan_pc, call, scan_result>>
    /\ UNCHANGED <<analyzer, scan_cancel, scans, called_cancelled, unread, mvars, xvars>>

\* after the loop: the children sorted, the large-folder flag (counted in
\* the progress by scan_directory_recursive only), and the node returned
\* (554-586, 402-428)
FinishDirectory ==
    /\ scan_pc = "loop"
    /\ Head(stack).entries = <<>>
    /\ LET top == Head(stack)
           is_large_folder == top.total_size >= analyzer.large_folder_threshold
           node == [path |-> PathStr(top.path), name |-> FileName(top.path),
                    size |-> top.total_size, file_count |-> top.file_count,
                    subdirectories |-> SortBySizeDesc(top.subdirectories),
                    is_large_folder |-> is_large_folder]
           pr == IF is_large_folder /\ ~Optimized(ScanRoot)
                 THEN IncrementLargeFoldersFound(progress) ELSE progress
       IN ReturnNode(node, Tail(stack), pr)
    /\ UNCHANGED <<analyzer, scan_cancel, call, scans, called_cancelled, unread, mvars,
                   xvars>>

\* cancel_scan, from another thread
CancelScan ==
    /\ ~scan_cancel
    /\ scan_cancel' = TRUE
    /\ UNCHANGED <<analyzer, progress, scan_pc, call, stack, scan_result, scans,
                   called_cancelled, unread, mvars, xvars>>

\* reset_cancel_flag, which the scan_directory command calls before a scan
ResetCancelFlag ==
    /\ scan_pc \in {"idle", "done"}
    /\ scan_cancel \/ progress # NoProgress
    /\ scan_cancel' = FALSE
    /\ progress' = NoProgress
    /\ UNCHANGED <<analyzer, scan_pc, call, stack, scan_result, scans, called_cancelled,
                   unread, mvars, xvars>>

-----------------------------------------------------------------------------
(* The migration pipeline as a state machine *)

\* File sizes (KiB) a source tree starts with: small, and too large for the
\* 20 GiB the disk-space check assumes
SourceFileSizes == {1, 18000000}

\* The filesystems a behaviour starts from: /p/a/{f, s/{g}} and an empty /q,
\* or /q already holding a user's file named .write_test.tmp
InitialFs(sz, probe) ==
    LET base == [x \in {<<"p">>, <<"q">>, <<"p", "a">>, <<"p", "a", "s">>} |-> DirNode]
        f1 == With(base, <<"p", "a", "f">>, FileNode(sz, "F"))
        f2 == With(f1, <<"p", "a", "s", "g">>, FileNode(1, "G"))
    IN IF probe THEN With(f2, <<"q", ".write_test.tmp">>, FileNode(1, "user")) ELSE f2

\* The arguments migrate_folder is called with
Sources == {<<"p", "a">>, <<"p", "m">>}
Targets ==
    {<<"p", "b">>,                 \* a sibling of the source
     <<"q", "b">>,                 \* under another directory
     <<"q", "n", "b">>,            \* under a directory that does not exist yet
     <<"p", "a", "b">>,            \* directly inside the source
     <<"p", "a", "s", "b">>,       \* deeper inside the source, parent exists
     <<"p", "a", "n", "b">>,       \* deeper inside the source, parent missing
     <<"q", "b?">>,                \* an illegal character
     <<"q", "aux">>}               \* a Windows device name

\* The calls of migrate_folder: every combination of the two options for the
\* plain migration to another directory, neither option for the other targets
\* and for the source that does not exist
Requests ==
    {[source_path |-> <<"p", "a">>, target_path |-> <<"q", "b">>,
      create_symlink |-> cs, delete_source |-> ds] : cs \in BOOLEAN, ds \in BOOLEAN}
    \cup {[source_path |-> <<"p", "a">>, target_path |-> t,
           create_symlink |-> FALSE, delete_source |-> FALSE] : t \in Targets}
    \cup {[source_path |-> <<"p", "m">>, target_path |-> <<"q", "b">>,
           create_symlink |-> FALSE, delete_source |-> FALSE]}

NoOpts == [source_path |-> Root, target_path |-> Root,
           create_symlink |-> FALSE, delete_source |-> FALSE]
NoResult == [success |-> FALSE, message |-> "none", check |-> "", reason |-> "",
             symlink_path |-> NoPath]

\* no direct call yet
NoOp == [name |-> "none", err |-> "", cancelled |-> FALSE]

\* no FileOperator method has been called directly
OperatorIdle ==
    /\ op_last = NoOp
    /\ ops = 0

\* ErrorRecoveryConfig::default(), the size ceiling in MiB and the retention
\* in hours
DefaultConfig ==
    [max_retries |-> 3, retry_delay_ms |-> 1000, enable_auto_recovery |-> TRUE,
     enable_partial_rollback |-> TRUE, max_rollback_size_mb |-> 1000,
     backup_retention_hours |-> 24]

NoBackups == [id \in {} |-> 0]
NoRecoveryState ==
    [operation_id |-> "", error |-> "", source_path |-> Root, strategy |-> "",
     max_retries |-> 0, retry_count |-> 0, is_recovered |-> FALSE, slept_ms |-> 0,
     attempts |-> 0]
NoOutcome ==
    [call |-> "none", ok |-> FALSE, type |-> "", err |-> "", message |-> "", count |-> 0,
     found |-> 0, arg |-> NoRecoveryState]

\* ErrorRecoveryManager::new(config), no call yet
RecoveryIdle ==
    /\ backup_registry = NoBackups
    /\ recovery_states = NoBackups
    /\ now = 0
    /\ uuids = 0
    /\ rpc = "idle"
    /\ rstate = NoRecoveryState
    /\ outcome = NoOutcome
    /\ recoveries = 0

\* OperationLogger::new, nothing logged yet
LoggerIdle ==
    /\ journal = <<>>
    /\ logs = NoBackups

\* no pre-check has been called directly
NoCheck == [name |-> "none", source |-> Root, target |-> Root, answer |-> ""]

\* AppDataConfig::default(), the threshold in KiB
DefaultAppDataConfig ==
    [min_size_threshold |-> 1024 * 1024, max_depth |-> 2, sort_order |-> "Desc"]

\* AppDataAnalyzer::new(): the default configuration and an empty scan cache;
\* clock is the seconds on the monotonic clock (Instant), report what the
\* last scan_appdata returned, served where it came from and asked the
\* configuration of the analyzer at that call
NewAppDataAnalyzer ==
    [config |-> DefaultAppDataConfig, scan_cache |-> <<>>, clock |-> 0,
     report |-> <<>>, served |-> "none", asked |-> DefaultAppDataConfig]

\* no command is running: the positions of scan_directory ("idle",
\* "configure", "ready", "scanning"), of stop_scan and of get_scan_progress
\* ("idle", "waiting"), the arguments of scan_directory, what the last
\* scan_directory returned and what the last get_scan_progress read; during
\* is history: the stop_scan that waits was invoked while a scan was running
NoCommands ==
    [scan |-> "idle", path |-> Root, c_drive_mode |-> FALSE, returned |-> "none",
     stop |-> "idle", during |-> FALSE, progress |-> "idle", seen |-> NoProgress]

\* PerformanceConfig::default(), the two settings the batch processor reads
DefaultPerformanceConfig == [max_memory_usage_mb |-> 500, batch_size |-> 100]

\* SmartBatchProcessor::new(config): an empty queue; pc is "loop" while
\* get_optimized_batch runs and holds the queue's lock, batch and total_size
\* are its locals, returned the batch of the last call
NewSmartBatchProcessor(cfg) ==
    [config |-> cfg, item_queue |-> <<>>, pc |-> "idle", batch |-> <<>>,
     total_size |-> 0, returned |-> <<>>]

\* no migrate_appdata_items command is running: pc is "idle", "loop" (between
\* two items) or "migrating" (inside migrate_folder); rest are the items the
\* loop has not reached; outcomes is history, what became of each item the
\* loop has reached; returned is what the last command returned
NoAppMigration ==
    [pc |-> "idle",
     options |-> [source_items |-> <<>>, target_drive |-> Root,
                  create_symlink |-> FALSE, delete_source |-> FALSE],
     rest |-> <<>>, success_count |-> 0, failure_count |-> 0, outcomes |-> <<>>,
     returned |-> [kind |-> "none", success |-> FALSE]]

\* the rest of the application, the batch processor aside, as it is
\* constructed
AppRestIdle ==
    /\ checked = NoCheck
    /\ appdata = NewAppDataAnalyzer
    /\ lock = "free"
    /\ commands = NoCommands
    /\ appmig = NoAppMigration
    /\ log_files = {}

\* the rest of the application as it is constructed
AppIdle ==
    /\ AppRestIdle
    /\ batch = NewSmartBatchProcessor(DefaultPerformanceConfig)

\* the other components as they are constructed
OthersIdle ==
    /\ OperatorIdle
    /\ config = DefaultConfig
    /\ RecoveryIdle
    /\ LoggerIdle
    /\ AppIdle

MigrationIdle ==
    /\ cancel_flag = FALSE
    /\ pc = "idle"
    /\ opts = NoOpts
    /\ todo = <<>>
    /\ symlink_path = NoPath
    /\ result = NoResult
    /\ issued = {}
    /\ faults = {}
    /\ pre = fs
    /\ verified = fs
    /\ migrations = 0

Init ==
    /\ fs \in {InitialFs(sz, probe) : sz \in SourceFileSizes, probe \in BOOLEAN}
    /\ windows \in BOOLEAN
    /\ MigrationIdle
    /\ ScannerIdle
    /\ OthersIdle

Failed(msg, chk, why) ==
    [success |-> FALSE, message |-> msg, check |-> chk, reason |-> why,
     symlink_path |-> NoPath]

\* the fault recorded when the operating system refuses a call
Fault(io_ok, name) == IF io_ok THEN {} ELSE {name}

\* migrate_folder is entered; step 1, PreCheck (lines 46-64)
MigrateFolder(source, target, cs, ds) ==
    /\ pc \in {"idle", "done"}
    /\ migrations < MaxMigrations
    /\ \E wr_ok \in BOOLEAN :
         LET c == PreMigrationCheck(fs, source, target, windows, wr_ok)
         IN /\ fs' = c.fs
            /\ pc' = IF c.ok THEN "copy" ELSE "done"
            /\ result' = IF c.ok THEN NoResult
                         ELSE Failed("precheck_failed", c.check, c.reason)
            /\ faults' = Fault(wr_ok, "io_precheck")
    /\ opts' = [source_path |-> source, target_path |-> target,
                create_symlink |-> cs, delete_source |-> ds]
    /\ pre' = fs
    /\ verified' = fs
    /\ issued' = {"precheck"}
    /\ todo' = <<>>
    /\ symlink_path' = NoPath
    /\ migrations' = migrations + 1
    /\ UNCHANGED <<windows, cancel_flag, svars>>

\* migrate_folder is called on the service
Migrate(source, target, cs, ds) ==
    /\ MigrateFolder(source, target, cs, ds)
    /\ UNCHANGED xvars

\* the pairs copy_directory still has to copy for the entries of source
Entries(f, source, target) ==
    LET names == ReadDir(f, source)
    IN [i \in 1..Len(names) |-> <<Join(source, names[i]), Join(target, names[i])>>]

\* copy_path returned Err: migrate_folder returns the failure at once
\* (migration_service.rs 69-77)
CopyFails ==
    /\ pc' = "done"
    /\ result' = Failed("copy_failed", "", "")
    /\ todo' = <<>>

\* copy_directory(src, dst) up to its loop: the directory made, the entries
\* read (file_operations.rs 142-148).  rest: the entries the callers have left
CopyDirectoryStart(src, dst, rest, io_ok) ==
    LET d == IF io_ok THEN MkdirAll(fs, dst) ELSE Fail(fs)
    IN /\ fs' = d.fs
       /\ IF ~d.ok THEN CopyFails
          ELSE /\ todo' = Entries(d.fs, src, dst) \o rest
               /\ pc' = IF todo' = <<>> THEN "verify" ELSE "copying"
               /\ result' = result

\* copy_file(src, dst) for copy_path or for one entry (123-139)
CopyFileStep(src, dst, rest, io_ok) ==
    LET c == CopyFile(fs, src, dst, io_ok)
    IN /\ fs' = c.fs
       /\ IF ~c.ok THEN CopyFails
          ELSE /\ todo' = rest
               /\ pc' = IF todo' = <<>> THEN "verify" ELSE "copying"
               /\ result' = result

\* step 2, copy_path up to copy_directory's first read_dir
\* (migration_service.rs 66-88, file_operations.rs 86-121)
CopyPath ==
    /\ pc = "copy"
    /\ issued' = issued \cup {"copy"}
    /\ LET source == opts.source_path
           target == opts.target_path
       IN IF \/ ~ValidatePath(source) \/ ~ValidatePath(target)
             \/ ~PathExists(fs, source)
             \/ PathExists(fs, target)
             \/ cancel_flag
          THEN CopyFails /\ fs' = fs /\ faults' = faults
          ELSE \E io_ok \in BOOLEAN :
                 /\ faults' = faults \cup Fault(io_ok, "io_copy")
                 /\ IF IsDir(fs, source)
                    THEN CopyDirectoryStart(source, target, <<>>, io_ok)
                    ELSE CopyFileStep(source, target, <<>>, io_ok)
    /\ UNCHANGED <<windows, cancel_flag, opts, symlink_path, pre, verified, migrations,
                   svars, xvars>>

\* copy_directory: one turn of the loop over the entries, the cancellation
\* check first (file_operations.rs 153-172)
CopyEntry ==
    /\ pc = "copying"
    /\ todo # <<>>
    /\ IF cancel_flag
       THEN CopyFails /\ fs' = fs /\ faults' = faults
       ELSE \E io_ok \in BOOLEAN :
              /\ faults' = faults \cup Fault(io_ok, "io_copy")
              /\ IF IsDir(fs, Head(todo)[1])
                 THEN CopyDirectoryStart(Head(todo)[1], Head(todo)[2], Tail(todo), io_ok)
                 ELSE CopyFileStep(Head(todo)[1], Head(todo)[2], Tail(todo), io_ok)
    /\ UNCHANGED <<windows, cancel_flag, opts, symlink_path, issued, pre, verified,
                   migrations, svars, xvars>>

\* Verify passed (migration_service.rs 94-96)
VerifyPassed ==
    /\ pc' = "link"
    /\ issued' = issued \cup {"verify"}
    /\ UNCHANGED <<fs, result, faults>>

\* a Verify failure that returns without the cleanup of the target
VerifyFailedNoCleanup ==
    /\ issued' = issued \cup {"verify"}
    /\ result' = Failed("verify_failed", "", "")
    /\ pc' = "done"
    /\ UNCHANGED <<fs, faults>>

\* Verify failed: delete_path(target), its result dropped, and the failure
\* returned (migration_service.rs 97-108)
VerifyFailed ==
    /\ \E io_ok \in BOOLEAN :
         /\ fs' = DeletePath(fs, opts.target_path, cancel_flag, windows, io_ok).fs
         /\ faults' = faults \cup Fault(io_ok, "io_cleanup")
    /\ issued' = issued \cup {"verify", "delete_target"}
    /\ result' = Failed("verify_failed", "", "")
    /\ pc' = "done"

\* step 3, verify_copy_result (migration_service.rs 92-109)
Verify ==
    /\ pc = "verify"
    /\ verified' = fs
    /\ IF VerifyCopyResult(fs, opts.source_path, opts.target_path)
       THEN VerifyPassed
       ELSE VerifyFailed
    /\ UNCHANGED <<windows, cancel_flag, opts, todo, symlink_path, pre, migrations, svars, xvars>>

\* create_symlink_after_migration: [ok, fs, renamed]
CreateSymlinkAfterMigration(f, source, target, cancelled, rn_ok, sl_ok) ==
    IF ~HasParent(source) THEN [ok |-> FALSE, fs |-> f, renamed |-> FALSE]
    ELSE LET parent == Front(source)
             link_name == Last(source)
             link_path == Join(parent, link_name)
             backup_path == Join(parent, link_name \o ".backup")
         IN IF PathExists(f, source)
            THEN LET r == FsRename(f, source, backup_path, rn_ok)
                     c == CreateSymlink(r.fs, target, link_path, cancelled, sl_ok)
                 IN IF ~r.ok THEN [ok |-> FALSE, fs |-> f, renamed |-> FALSE]
                    ELSE [ok |-> c.ok, fs |-> c.fs, renamed |-> TRUE]
            ELSE LET c == CreateSymlink(f, target, link_path, cancelled, sl_ok)
                 IN [ok |-> c.ok, fs |-> c.fs, renamed |-> FALSE]

\* a Link step whose failure fails the migration
LinkAttemptStrict ==
    \E rn_ok \in BOOLEAN, sl_ok \in BOOLEAN :
        LET l == CreateSymlinkAfterMigration(fs, opts.source_path, opts.target_path,
                                             cancel_flag, rn_ok, sl_ok)
        IN /\ fs' = l.fs
           /\ symlink_path' = IF l.ok THEN opts.source_path ELSE NoPath
           /\ issued' = issued \cup {"link"} \cup (IF l.renamed THEN {"rename"} ELSE {})
           /\ faults' = faults \cup Fault(rn_ok, "io_rename") \cup Fault(sl_ok, "io_symlink")
           /\ pc' = IF l.ok THEN "delete" ELSE "done"
           /\ result' = IF l.ok THEN result ELSE Failed("link_failed", "", "")

\* the link is asked for: its failure is logged, and the pipeline goes on
\* (migration_service.rs 114-125)
LinkAttempt ==
    \E rn_ok \in BOOLEAN, sl_ok \in BOOLEAN :
        LET l == CreateSymlinkAfterMigration(fs, opts.source_path, opts.target_path,
                                             cancel_flag, rn_ok, sl_ok)
        IN /\ fs' = l.fs
           /\ symlink_path' = IF l.ok THEN opts.source_path ELSE NoPath
           /\ issued' = issued \cup {"link"} \cup (IF l.renamed THEN {"rename"} ELSE {})
           /\ faults' = faults \cup Fault(rn_ok, "io_rename") \cup Fault(sl_ok, "io_symlink")
           /\ pc' = "delete"
           /\ result' = result

\* step 4, the link, when asked for (migration_service.rs 111-125)
Link ==
    /\ pc = "link"
    /\ IF opts.create_symlink
       THEN LinkAttempt
       ELSE pc' = "delete" /\ UNCHANGED <<fs, symlink_path, issued, faults, result>>
    /\ UNCHANGED <<windows, cancel_flag, opts, todo, pre, verified, migrations, svars, xvars>>

\* the deletion of the source is asked for: delete_path(source), its failure
\* logged (migration_service.rs 128-138)
DeleteAttempt ==
    \E io_ok \in BOOLEAN :
        /\ fs' = DeletePath(fs, opts.source_path, cancel_flag, windows, io_ok).fs
        /\ faults' = faults \cup Fault(io_ok, "io_delete")
        /\ issued' = issued \cup {"delete_source"}

\* step 5, delete_path(source) when asked for, and the successful return
\* (migration_service.rs 127-147)
DeleteSource ==
    /\ pc = "delete"
    /\ pc' = "done"
    /\ IF opts.delete_source
       THEN DeleteAttempt
       ELSE UNCHANGED <<fs, issued, faults>>
    /\ result' = [success |-> TRUE, message |-> "migrated", check |-> "", reason |-> "",
                  symlink_path |-> symlink_path]
    /\ UNCHANGED <<windows, cancel_flag, opts, todo, symlink_path, pre, verified,
                   migrations, svars, xvars>>

\* FileOperator::cancel_operation, from another thread
CancelOperation ==
    /\ ~cancel_flag
    /\ pc \notin {"idle", "done"}
    /\ cancel_flag' = TRUE
    /\ faults' = faults \cup {"cancel"}
    /\ UNCHANGED <<fs, windows, pc, opts, todo, symlink_path, result, issued, pre,
                   verified, migrations, svars, xvars>>

\* Sizes (KiB) of the file another program drops into the source
TempFileSizes == {0, 1}

\* Another program writes a temporary file into the source between Copy and
\* Verify
ExternalWrite ==
    /\ pc = "verify"
    /\ IsDir(fs, opts.source_path)
    /\ ~PathExists(fs, Join(opts.source_path, "t"))
    /\ \E sz \in TempFileSizes :
         fs' = FsWrite(fs, Join(opts.source_path, "t"), sz, "T", TRUE).fs
    /\ faults' = faults \cup {"external"}
    /\ UNCHANGED <<windows, cancel_flag, pc, opts, todo, symlink_path, result, issued,
                   pre, verified, migrations, svars, xvars>>

Next ==
    \/ \E o \in Requests :
           Migrate(o.source_path, o.target_path, o.create_symlink, o.delete_source)
    \/ CopyPath
    \/ CopyEntry
    \/ Verify
    \/ Link
    \/ DeleteSource
    \/ CancelOperation
    \/ ExternalWrite

Spec == Init /\ [][Next]_vars

-----------------------------------------------------------------------------
(* The scanner on its own *)

\* The tree the scans run on: /a/{f1, f2, sub/{f3}}, every file of size 100
ScanTree ==
    LET dirs == [x \in {<<"a">>, <<"a", "sub">>} |-> DirNode]
        t1 == With(dirs, <<"a", "f1">>, FileNode(100, "1"))
        t2 == With(t1, <<"a", "f2">>, FileNode(100, "2"))
    IN With(t2, <<"a", "sub", "f3">>, FileNode(100, "3"))

\* The settings a scan runs with (set_max_depth, set_large_folder_threshold,
\* set_c_drive_mode)
ScanConfigs ==
    [max_depth : {0, 1, 3}, large_folder_threshold : {0, 150, 1000},
     is_c_drive_mode : BOOLEAN]

\* The paths scan_directory is called with
ScanPaths == {<<"a">>, <<"a", "sub">>, <<"m">>, <<"C:", "Windows", "System32">>}

ScanInit ==
    /\ fs = ScanTree
    /\ windows = FALSE
    /\ MigrationIdle
    /\ OthersIdle
    /\ analyzer \in ScanConfigs
    /\ scan_cancel = FALSE
    /\ progress = NoProgress
    /\ scan_pc = "idle"
    /\ call = NoCall
    /\ stack = <<>>
    /\ scan_result = NoScanResult
    /\ scans = 0
    /\ called_cancelled = FALSE
    /\ unread = {}

ScanNext ==
    \/ \E path \in ScanPaths : ScanDirectory(path)
    \/ EnterDirectory
    \/ NextEntry
    \/ FinishDirectory
    \/ CancelScan
    \/ ResetCancelFlag

ScanSpec == ScanInit /\ [][ScanNext]_vars

\* A tree with crowded directories: /big/{d1/{e1 .. e200}, d2/{e1 .. e100}}
BigTree ==
    LET dirs == {<<"big">>, <<"big", "d1">>, <<"big", "d2">>}
        files == {<<"big", "d1", ManyNames[i]>> : i \in 1..ManyEntries}
                     \cup {<<"big", "d2", ManyNames[i]>> : i \in 1..(ManyEntries \div 2)}
    IN [x \in dirs \cup files |-> IF x \in dirs THEN DirNode ELSE FileNode(1, "")]

\* a new DiskAnalyzer, on the tree with the crowded directories
ProgressInit ==
    /\ fs = BigTree
    /\ windows = FALSE
    /\ MigrationIdle
    /\ OthersIdle
    /\ ScannerIdle

ProgressNext ==
    \/ ScanDirectory(<<"big">>)
    \/ EnterDirectory
    \/ NextEntry
    \/ FinishDirectory
    \/ ResetCancelFlag

ProgressSpec == ProgressInit /\ [][ProgressNext]_vars

-----------------------------------------------------------------------------
(* A FileOperator in direct use: its public methods called one after the
   other, each call run to its end, cancel_operation called in between *)

\* Bound on the number of direct calls
MaxOps == 3

RECURSIVE CopyDirectory(_, _, _, _)
RECURSIVE CopyDirectoryEntries(_, _, _, _, _)
\* copy_directory with the cancel flag clear throughout: [ok, fs]
CopyDirectory(f, source, target, fuel) ==
    LET d == MkdirAll(f, target)
    IN IF ~d.ok THEN d
       ELSE CopyDirectoryEntries(d.fs, source, target, ReadDir(d.fs, source), fuel)

\* copy_directory, the loop over the entries `names` of `source`
CopyDirectoryEntries(f, source, target, names, fuel) ==
    IF names = <<>> THEN Ok(f)
    ELSE LET entry_path == Join(source, Head(names))
             target_entry_path == Join(target, Head(names))
             r == IF IsDir(f, entry_path)
                  THEN IF fuel = 0 THEN Fail(f)
                       ELSE CopyDirectory(f, entry_path, target_entry_path, fuel - 1)
                  ELSE CopyFile(f, entry_path, target_entry_path, TRUE)
         IN IF ~r.ok THEN r
            ELSE CopyDirectoryEntries(r.fs, source, target, Tail(names), fuel)

\* copy_path run to its end: [ok, fs, err]
CopyPathAtOnce(f, source, target, cancelled, io_ok) ==
    IF ~ValidatePath(source) \/ ~ValidatePath(target)
    THEN [ok |-> FALSE, fs |-> f, err |-> "InvalidPath"]
    ELSE IF ~PathExists(f, source) THEN [ok |-> FALSE, fs |-> f, err |-> "PathNotFound"]
    ELSE IF PathExists(f, target)
    THEN [ok |-> FALSE, fs |-> f, err |-> "PathAlreadyExists"]
    ELSE IF cancelled THEN [ok |-> FALSE, fs |-> f, err |-> "OperationCancelled"]
    ELSE IF ~io_ok THEN [ok |-> FALSE, fs |-> f, err |-> "IoError"]
    ELSE LET r == IF IsDir(f, source) THEN CopyDirectory(f, source, target, Fuel)
                  ELSE CopyFile(f, source, target, TRUE)
         IN [ok |-> r.ok, fs |-> r.fs, err |-> IF r.ok THEN "" ELSE "IoError"]

\* The paths the methods are called with: a directory, a file, a path that
\* does not exist in a directory that does, and one in a directory that
\* does not
OperatorPaths == {<<"p", "a">>, <<"p", "a", "f">>, <<"q", "b">>, <<"p", "m", "n">>}

\* what a direct call leaves alone
OperatorFrame ==
    UNCHANGED <<windows, cancel_flag, pc, opts, todo, symlink_path, result, issued, faults,
                pre, verified, migrations, svars, rvars, lvars, avars>>

\* the call is recorded with the state of the cancel flag it met
Called(name, r) ==
    /\ fs' = r.fs
    /\ op_last' = [name |-> name, err |-> r.err, cancelled |-> cancel_flag]
    /\ ops' = ops + 1

\* copy_path(source, target)
CallCopyPath(source, target) ==
    /\ pc = "operator"
    /\ ops < MaxOps
    /\ \E io_ok \in BOOLEAN :
         Called("copy_path", CopyPathAtOnce(fs, source, target, cancel_flag, io_ok))
    /\ OperatorFrame

\* delete_path(path)
CallDeletePath(path) ==
    /\ pc = "operator"
    /\ ops < MaxOps
    /\ \E io_ok \in BOOLEAN :
         Called("delete_path", DeletePath(fs, path, cancel_flag, windows, io_ok))
    /\ OperatorFrame

\* create_symlink(target, link_path)
CallCreateSymlink(target, link_path) ==
    /\ pc = "operator"
    /\ ops < MaxOps
    /\ \E io_ok \in BOOLEAN :
         Called("create_symlink", CreateSymlink(fs, target, link_path, cancel_flag, io_ok))
    /\ OperatorFrame

OperatorInit ==
    /\ fs = InitialFs(1, FALSE)
    /\ windows \in BOOLEAN
    /\ cancel_flag = FALSE
    /\ pc = "operator"
    /\ opts = NoOpts
    /\ todo = <<>>
    /\ symlink_path = NoPath
    /\ result = NoResult
    /\ issued = {}
    /\ faults = {}
    /\ pre = fs
    /\ verified = fs
    /\ migrations = 0
    /\ ScannerIdle
    /\ OthersIdle

OperatorNext ==
    \/ \E source \in OperatorPaths, target \in OperatorPaths : CallCopyPath(source, target)
    \/ \E path \in OperatorPaths : CallDeletePath(path)
    \/ \E target \in OperatorPaths, link_path \in OperatorPaths :
           CallCreateSymlink(target, link_path)
    \/ CancelOperation

OperatorSpec == OperatorInit /\ [][OperatorNext]_vars

-----------------------------------------------------------------------------
(* ErrorRecoveryManager (error_recovery.rs): backups, handle_error and the
   clean-up of expired backups.  Sizes are in KiB and times in hours. *)

\* Bound on the number of backups created
MaxBackups == 2
\* Bound on the number of handle_error calls
MaxRecoveries == 1
\* Bound on the clock, in hours
MaxClock == 48

\* The FileOperationError values handle_error is called with
Errors ==
    {"IoError(Other)", "IoError(PermissionDenied)", "IoError(NotFound)",
     "IoError(AlreadyExists)", "PermissionDenied", "PathNotFound", "PathAlreadyExists",
     "InvalidPath", "OperationCancelled"}

\* classify_error
ClassifyError(error) ==
    CASE error = "IoError(PermissionDenied)" -> "PermissionDenied"
      [] error = "IoError(NotFound)" -> "PathNotFound"
      [] error = "IoError(AlreadyExists)" -> "PathAlreadyExists"
      [] error = "IoError(Other)" -> "IoError"
      [] OTHER -> error

\* determine_severity
DetermineSeverity(error_type) ==
    CASE error_type \in {"OperationCancelled", "PathAlreadyExists"} -> "Low"
      [] error_type \in {"PathNotFound", "PermissionDenied", "NetworkError", "Timeout"} ->
             "Medium"
      [] error_type \in {"InvalidPath", "IoError", "Unknown"} -> "High"
      [] error_type \in {"DiskSpaceInsufficient", "SystemProtection"} -> "Critical"

\* determine_recovery_strategy without the enable_auto_recovery short-circuit
DetermineRecoveryStrategyAlways(cfg, error_type, severity) ==
    LET Strategy(name, n) == [name |-> name, n |-> n]
    IN CASE error_type = "OperationCancelled" -> Strategy("Skip", 0)
         [] error_type = "PathAlreadyExists" /\ severity = "Low" -> Strategy("Skip", 0)
         [] error_type = "PathNotFound" /\ severity = "Medium" -> Strategy("Retry", 2)
         [] error_type = "IoError" /\ severity = "High" -> Strategy("Retry", 3)
         [] error_type \in {"DiskSpaceInsufficient", "SystemProtection"}
                /\ severity = "Critical" -> Strategy("Abort", 0)
         [] OTHER -> Strategy("Manual", 0)

\* determine_recovery_strategy: [name, n], n the count of Retry(n)
DetermineRecoveryStrategy(cfg, error_type, severity) ==
    LET Strategy(name, n) == [name |-> name, n |-> n]
    IN IF ~cfg.enable_auto_recovery THEN Strategy("Manual", 0)
       ELSE CASE error_type = "OperationCancelled" -> Strategy("Skip", 0)
              [] error_type = "PathAlreadyExists" /\ severity = "Low" -> Strategy("Skip", 0)
              [] error_type = "PathNotFound" /\ severity = "Medium" -> Strategy("Retry", 2)
              [] error_type = "PermissionDenied" /\ severity = "Medium" ->
                     Strategy("Manual", 0)
              [] error_type = "IoError" /\ severity = "High" -> Strategy("Retry", 3)
              [] error_type \in {"DiskSpaceInsufficient", "SystemProtection"}
                     /\ severity = "Critical" -> Strategy("Abort", 0)
              [] OTHER -> Strategy("Manual", 0)

\* std::env::temp_dir()
TempDir == <<"tmp">>

\* generate_backup_path: <temp>/dir_mover_backups/<name>_<timestamp>_<backup id>
GenerateBackupPath(source_path, backup_id, t) ==
    LET source_name == IF source_path = Root THEN "backup" ELSE Last(source_path)
    IN Join(Join(TempDir, "dir_mover_backups"),
            source_name \o "_" \o ToString(t) \o "_" \o ToString(backup_id))

\* generate_temp_backup_path: <temp>/dir_mover_temp/<name>_<timestamp>_temp
GenerateTempBackupPath(source_path, t) ==
    LET source_name == IF source_path = Root THEN "temp_backup" ELSE Last(source_path)
    IN Join(Join(TempDir, "dir_mover_temp"), source_name \o "_" \o ToString(t) \o "_temp")

\* calculate_directory_size: [ok, size]
RecoveryDirectorySize(f, path) ==
    IF ~PathExists(f, path) THEN [ok |-> FALSE, size |-> 0]
    ELSE IF IsFile(f, path) THEN [ok |-> TRUE, size |-> f[Canonicalize(f, path)].size]
    ELSE SizeEntries(f, path, ReadDir(f, path), Fuel)

RECURSIVE CopyDirectoryRecursive(_, _, _, _)
\* copy_directory_recursive: [ok, fs]; `names` is what is left of the listing
\* of source, <<"?">> before the target is created and the source listed
CopyDirectoryRecursive(f, source, target, names) ==
    IF names = <<"?">>
    THEN LET d == MkdirAll(f, target)
         IN IF ~d.ok \/ ~IsDir(d.fs, source) \/ Len(source) > Fuel THEN Fail(d.fs)
            ELSE CopyDirectoryRecursive(d.fs, source, target, ReadDir(d.fs, source))
    ELSE IF names = <<>> THEN Ok(f)
    ELSE LET entry_path == Join(source, Head(names))
             target_entry_path == Join(target, Head(names))
             r == IF IsDir(f, entry_path)
                  THEN CopyDirectoryRecursive(f, entry_path, target_entry_path, <<"?">>)
                  ELSE FsCopy(f, entry_path, target_entry_path, TRUE)
         IN IF ~r.ok THEN r
            ELSE CopyDirectoryRecursive(r.fs, source, target, Tail(names))

\* perform_backup: [ok, fs]; io_ok = FALSE is the first filesystem call refused
PerformBackup(f, source, backup_path, io_ok) ==
    LET d == MkdirAll(f, Front(backup_path))
    IN IF ~io_ok \/ ~d.ok THEN Fail(f)
       ELSE IF IsFile(d.fs, source) THEN FsCopy(d.fs, source, backup_path, TRUE)
       ELSE CopyDirectoryRecursive(d.fs, source, backup_path, <<"?">>)

\* fs::remove_dir_all, fs::remove_file of a backup or an original: [ok, fs]
RemoveAll(f, p, io_ok) ==
    LET loc == EntryLoc(f, p)
    IN IF ~io_ok \/ loc = NoPath \/ loc \notin DOMAIN f THEN Fail(f)
       ELSE Ok(Without(f, {loc} \cup Below(f, loc)))

\* perform_rollback, the end: the original path deleted if it is there
\* (lines 435-441) and the backup copied back (line 444)
RestoreBackup(kept, b, io_ok) ==
    IF ~kept.ok THEN kept
    ELSE IF IsDir(kept.fs, b.original_path) \/ IsFile(kept.fs, b.original_path)
    THEN PerformBackup(RemoveAll(kept.fs, b.original_path, TRUE).fs, b.backup_path,
                       b.original_path, TRUE)
    ELSE PerformBackup(kept.fs, b.backup_path, b.original_path, io_ok)

\* perform_rollback with the backup b: [ok, fs]
PerformRollback(f, b, t, io_ok) ==
    RestoreBackup(IF PathExists(f, b.original_path)
                  THEN PerformBackup(f, b.original_path,
                                     GenerateTempBackupPath(b.original_path, t), io_ok)
                  ELSE Ok(f),
                  b, io_ok)

\* find_backup_for_operation: the backup ids the search can return (the
\* first match in the iteration order of the HashMap, which is any match),
\* 0 for None
FindBackupForOperation(registry, operation_id) ==
    LET matches == {id \in DOMAIN registry :
                      /\ Contains(registry[id].operation_type, operation_id)
                      /\ registry[id].is_active}
    IN IF matches = {} THEN {0} ELSE matches

\* retry_operation: Ok(())
RetryOperation == TRUE

\* create_emergency_backup_and_rollback: Err(..)
CreateEmergencyBackupAndRollback == [ok |-> FALSE, err |-> "emergency backup not implemented"]

\* what a strategy handler returns (fs: the disk it leaves; found: the backup
\* the search returned).  The messages, Chinese text in the source, are given
\* in English.
Returns(ok, type, err, message, f, found) ==
    [ok |-> ok, type |-> type, err |-> err, message |-> message, fs |-> f, found |-> found]

\* handle_rollback, the search having returned backup id `found`
HandleRollback(f, registry, found, t, io_ok) ==
    IF found # 0
    THEN LET r == PerformRollback(f, registry[found], t, io_ok)
         IN IF r.ok THEN Returns(TRUE, "Rollback", "", "recovered by rollback", r.fs, found)
            ELSE Returns(FALSE, "", "RollbackFailed", "rollback failed", r.fs, found)
    ELSE LET e == CreateEmergencyBackupAndRollback
         IN IF e.ok THEN Returns(TRUE, "Rollback", "", "recovered by emergency rollback", f, 0)
            ELSE Returns(FALSE, "", "RollbackFailed", "emergency rollback failed: " \o e.err, f, 0)

\* handle_skip, handle_abort, handle_manual
HandleOther(f, strategy) ==
    CASE strategy = "Skip" -> Returns(TRUE, "Skip", "", "skipped", f, 0)
      [] strategy = "Abort" -> Returns(FALSE, "Abort", "", "aborted", f, 0)
      [] strategy = "Manual" ->
             Returns(FALSE, "Manual", "", "manual", f, 0)

\* what an action of the manager leaves alone
RecoveryFrame ==
    UNCHANGED <<windows, cancel_flag, pc, opts, todo, symlink_path, result, issued, faults,
                pre, verified, migrations, svars, ovars, lvars, avars,
                config>>

\* handle_error returns r: the recovery state is recorded (line 157)
Return(rs, r) ==
    LET recovered == [rs EXCEPT !.is_recovered = r.ok /\ r.type # ""]
    IN /\ fs' = r.fs
       /\ rpc' = "idle"
       /\ rstate' = recovered
       /\ recovery_states' = With(recovery_states, rs.operation_id, recovered)
       /\ outcome' = [call |-> "handle_error", ok |-> r.ok, type |-> r.type, err |-> r.err,
                      message |-> r.message, count |-> 0, found |-> r.found,
                      arg |-> recovered]

\* handle_error(operation_id, error, context) is called (lines 112-154): the
\* strategy is chosen and, unless it is Retry, carried out
HandleError(operation_id, error, source_path) ==
    /\ rpc = "idle"
    /\ recoveries < MaxRecoveries
    /\ recoveries' = recoveries + 1
    /\ LET error_type == ClassifyError(error)
           severity == DetermineSeverity(error_type)
           strategy == DetermineRecoveryStrategy(config, error_type, severity)
           rs == [operation_id |-> operation_id, error |-> error_type,
                  source_path |-> source_path, strategy |-> strategy.name,
                  max_retries |-> strategy.n, retry_count |-> 0, is_recovered |-> FALSE,
                  slept_ms |-> 0, attempts |-> 0]
       IN IF strategy.name = "Retry"
          THEN /\ rpc' = "retry"
               /\ rstate' = rs
               /\ UNCHANGED <<fs, recovery_states, outcome>>
          ELSE IF strategy.name = "Rollback"
          THEN \E found \in FindBackupForOperation(backup_registry, operation_id),
                  io_ok \in BOOLEAN :
                   Return(rs, HandleRollback(fs, backup_registry, found, now, io_ok))
          ELSE Return(rs, HandleOther(fs, strategy.name))
    /\ UNCHANGED <<backup_registry, now, uuids>>
    /\ RecoveryFrame

\* RetryWait without the sleep
RetryWaitNoSleep ==
    /\ rpc = "retry"
    /\ IF rstate.retry_count < rstate.max_retries
       THEN /\ rstate' = [rstate EXCEPT !.retry_count = @ + 1]
            /\ rpc' = "attempt"
            /\ UNCHANGED <<fs, recovery_states, outcome>>
       ELSE Return(rstate, Returns(FALSE, "", "MaxRetriesExceeded", "retries exhausted",
                                   fs, 0))
    /\ UNCHANGED <<backup_registry, now, uuids, recoveries>>
    /\ RecoveryFrame

\* handle_retry, the head of the loop and the wait before an attempt
\* (lines 171-177)
RetryWait ==
    /\ rpc = "retry"
    /\ IF rstate.retry_count < rstate.max_retries
       THEN /\ rstate' = [rstate EXCEPT !.retry_count = @ + 1,
                                        !.slept_ms = @ + config.retry_delay_ms]
            /\ rpc' = "attempt"
            /\ UNCHANGED <<fs, recovery_states, outcome>>
       ELSE Return(rstate, Returns(FALSE, "", "MaxRetriesExceeded", "retries exhausted", fs, 0))
    /\ UNCHANGED <<backup_registry, now, uuids, recoveries>>
    /\ RecoveryFrame

\* handle_retry, one attempt and what follows it (lines 180-205)
RetryAttempt ==
    /\ rpc = "attempt"
    /\ LET tried == [rstate EXCEPT !.attempts = @ + 1]
       IN IF RetryOperation
          THEN Return(tried, Returns(TRUE, "Retry", "", "recovered by retry", fs, 0))
          ELSE IF tried.retry_count >= tried.max_retries
          THEN IF config.enable_partial_rollback
               THEN \E found \in FindBackupForOperation(backup_registry, tried.operation_id),
                       io_ok \in BOOLEAN :
                        Return(tried, HandleRollback(fs, backup_registry, found, now, io_ok))
               ELSE Return(tried, Returns(FALSE, "", "MaxRetriesExceeded",
                                          "maximum retries reached", fs, 0))
          ELSE /\ rpc' = "retry"
               /\ rstate' = tried
               /\ UNCHANGED <<fs, recovery_states, outcome>>
    /\ UNCHANGED <<backup_registry, now, uuids, recoveries>>
    /\ RecoveryFrame

\* what create_backup and cleanup_expired_backups return
Answer(method, ok, err, count, found) ==
    [call |-> method, ok |-> ok, type |-> "", err |-> err, message |-> "", count |-> count,
     found |-> found, arg |-> NoRecoveryState]

\* CreateBackup rejecting a source exactly as large as the ceiling
CreateBackupAtLeast(source_path, operation_type, operation_id) ==
    /\ rpc = "idle"
    /\ uuids < MaxBackups
    /\ LET source_size == RecoveryDirectorySize(fs, source_path)
           max_backup_size == config.max_rollback_size_mb * 1024
           backup_id == uuids + 1
           backup_path == GenerateBackupPath(source_path, backup_id, now)
       IN IF ~source_size.ok
          THEN /\ outcome' = Answer("create_backup", FALSE, "SizeError", 0, 0)
               /\ UNCHANGED <<fs, backup_registry, uuids>>
          ELSE IF source_size.size >= max_backup_size
          THEN /\ outcome' = Answer("create_backup", FALSE, "BackupTooLarge", 0, 0)
               /\ UNCHANGED <<fs, backup_registry, uuids>>
          ELSE \E io_ok \in BOOLEAN :
                 LET r == PerformBackup(fs, source_path, backup_path, io_ok)
                     backup_info ==
                         [backup_id |-> backup_id, original_path |-> source_path,
                          backup_path |-> backup_path, backup_size |-> source_size.size,
                          created_at |-> now, operation_type |-> operation_type,
                          is_active |-> TRUE]
                 IN /\ fs' = r.fs
                    /\ uuids' = backup_id
                    /\ backup_registry' = IF r.ok
                                          THEN With(backup_registry, backup_id, backup_info)
                                          ELSE backup_registry
                    /\ outcome' = IF r.ok
                                  THEN Answer("create_backup", TRUE, "", 0, backup_id)
                                  ELSE Answer("create_backup", FALSE, "BackupFailed", 0, 0)
    /\ UNCHANGED <<recovery_states, now, rpc, rstate, recoveries>>
    /\ RecoveryFrame

\* create_backup(source_path, operation_type, operation_id)
CreateBackup(source_path, operation_type, operation_id) ==
    /\ rpc = "idle"
    /\ uuids < MaxBackups
    /\ LET source_size == RecoveryDirectorySize(fs, source_path)
           max_backup_size == config.max_rollback_size_mb * 1024
           backup_id == uuids + 1
           backup_path == GenerateBackupPath(source_path, backup_id, now)
       IN IF ~source_size.ok
          THEN /\ outcome' = Answer("create_backup", FALSE, "SizeError", 0, 0)
               /\ UNCHANGED <<fs, backup_registry, uuids>>
          ELSE IF source_size.size > max_backup_size
          THEN /\ outcome' = Answer("create_backup", FALSE, "BackupTooLarge", 0, 0)
               /\ UNCHANGED <<fs, backup_registry, uuids>>
          ELSE \E io_ok \in BOOLEAN :
                 LET r == PerformBackup(fs, source_path, backup_path, io_ok)
                     backup_info ==
                         [backup_id |-> backup_id, original_path |-> source_path,
                          backup_path |-> backup_path, backup_size |-> source_size.size,
                          created_at |-> now, operation_type |-> operation_type,
                          is_active |-> TRUE]
                 IN /\ fs' = r.fs
                    /\ uuids' = backup_id
                    /\ backup_registry' = IF r.ok
                                          THEN With(backup_registry, backup_id, backup_info)
                                          ELSE backup_registry
                    /\ outcome' = IF r.ok
                                  THEN Answer("create_backup", TRUE, "", 0, backup_id)
                                  ELSE Answer("create_backup", FALSE, "BackupFailed", 0, 0)
    /\ UNCHANGED <<recovery_states, now, rpc, rstate, recoveries>>
    /\ RecoveryFrame

\* remove_backup of the backups in `ids`, the deletion of those in `refused`
\* failing: [fs, registry, removed]
RemoveBackups(f, registry, ids, refused) ==
    LET deleted == {id \in ids \ refused : PathExists(f, registry[id].backup_path)}
        gone == UNION {{registry[id].backup_path} \cup Below(f, registry[id].backup_path) :
                         id \in deleted}
    IN [fs |-> Without(f, gone),
        registry |-> [id \in (DOMAIN registry) \ ids |-> registry[id]],
        removed |-> ids \ {id \in refused : PathExists(f, registry[id].backup_path)}]

\* cleanup_expired_backups()
CleanupExpiredBackups ==
    /\ rpc = "idle"
    /\ LET cutoff_time == now - config.backup_retention_hours
           expired == {id \in DOMAIN backup_registry :
                         backup_registry[id].created_at < cutoff_time}
       IN \E refused \in SUBSET expired :
            LET r == RemoveBackups(fs, backup_registry, expired, refused)
            IN /\ fs' = r.fs
               /\ backup_registry' = r.registry
               /\ outcome' = Answer("cleanup_expired_backups", TRUE, "",
                                    Cardinality(r.removed), 0)
    /\ UNCHANGED <<recovery_states, now, uuids, rpc, rstate, recoveries>>
    /\ RecoveryFrame

\* time passes (a retention period at a time)
Tick ==
    /\ now + config.backup_retention_hours <= MaxClock
    /\ now' = now + config.backup_retention_hours
    /\ UNCHANGED <<fs, backup_registry, recovery_states, uuids, rpc, rstate, outcome,
                   recoveries>>
    /\ RecoveryFrame

\* the operation that failed left a file of the original missing
\* (fs::remove_file in test_rollback_operation)
LoseFile ==
    /\ PathExists(fs, <<"p", "a", "f">>)
    /\ fs' = RemoveFile(fs, <<"p", "a", "f">>, windows).fs
    /\ UNCHANGED <<backup_registry, recovery_states, now, uuids, rpc, rstate, outcome,
                   recoveries>>
    /\ RecoveryFrame

\* The manager's configuration and the size of /p/a/f, in KiB: the default
\* configuration with a small file, with /p/a exactly as large as the ceiling
\* of 1000 MiB allows and with /p/a 1 KiB larger; and a small file without
\* partial rollback and without automatic recovery
Installations ==
    {[config |-> DefaultConfig, size |-> sz] : sz \in {1, 1000 * 1024 - 1, 1000 * 1024}}
    \cup {[config |-> [DefaultConfig EXCEPT !.enable_partial_rollback = FALSE], size |-> 1],
          [config |-> [DefaultConfig EXCEPT !.enable_auto_recovery = FALSE], size |-> 1]}

\* The calls of create_backup: a directory under two operation types, a
\* file, a path that does not exist
BackupRequests ==
    {[source_path |-> <<"p", "a">>, operation_type |-> "rollback_test"],
     [source_path |-> <<"p", "a">>, operation_type |-> "cleanup_test"],
     [source_path |-> <<"p", "a", "f">>, operation_type |-> "rollback_test"],
     [source_path |-> <<"p", "m">>, operation_type |-> "rollback_test"]}

\* The source path of the context handle_error is called with: the path that
\* does not exist for the not-found errors, the original otherwise
ContextOf(error) ==
    IF ClassifyError(error) = "PathNotFound" THEN <<"p", "m">> ELSE <<"p", "a">>

\* The operation ids rollback is asked for: one no operation type contains
\* and one both types contain
OperationIds == {"rollback_test_1", "test"}

RecoveryInit ==
    /\ \E i \in Installations :
         /\ fs = With(InitialFs(i.size, FALSE), TempDir, DirNode)
         /\ config = i.config
    /\ windows = FALSE
    /\ MigrationIdle
    /\ ScannerIdle
    /\ OperatorIdle
    /\ RecoveryIdle
    /\ LoggerIdle
    /\ AppIdle

\* Backups are made, an operation fails and handle_error is called
RecoveryNext ==
    \/ \E b \in BackupRequests :
           CreateBackup(b.source_path, b.operation_type, "rollback_op_1")
    \/ LoseFile
    \/ \E error \in Errors : HandleError("rollback_test_1", error, ContextOf(error))
    \/ RetryWait
    \/ RetryAttempt

RecoverySpec == RecoveryInit /\ [][RecoveryNext]_vars

\* handle_error is an async fn the caller awaits: once called it keeps running
RecoveryLiveSpec == RecoverySpec /\ WF_vars(RetryWait) /\ WF_vars(RetryAttempt)

\* Backups are made, time passes and the expired ones are cleaned up
BackupNext ==
    \/ \E b \in BackupRequests :
           CreateBackup(b.source_path, b.operation_type, "cleanup_op_1")
    \/ Tick
    \/ CleanupExpiredBackups

BackupSpec == RecoveryInit /\ [][BackupNext]_vars

\* handle_rollback(operation_id, recovery_state, context) applied on its own
Rollback(operation_id, source_path) ==
    /\ rpc = "idle"
    /\ recoveries < MaxRecoveries
    /\ recoveries' = recoveries + 1
    /\ LET rs == [NoRecoveryState EXCEPT !.operation_id = operation_id,
                                         !.source_path = source_path,
                                         !.strategy = "Rollback"]
       IN \E found \in FindBackupForOperation(backup_registry, operation_id),
             io_ok \in BOOLEAN :
              Return(rs, HandleRollback(fs, backup_registry, found, now, io_ok))
    /\ UNCHANGED <<backup_registry, now, uuids>>
    /\ RecoveryFrame

\* Backups are made over time and an operation is rolled back
RollbackNext ==
    \/ \E b \in BackupRequests :
           CreateBackup(b.source_path, b.operation_type, "rollback_op_1")
    \/ Tick
    \/ \E operation_id \in OperationIds : Rollback(operation_id, <<"p", "a">>)

\* the default configuration and a small file
RollbackInit ==
    /\ RecoveryInit
    /\ config = DefaultConfig
    /\ fs = With(InitialFs(1, FALSE), TempDir, DirNode)

RollbackSpec == RollbackInit /\ [][RollbackNext]_vars

-----------------------------------------------------------------------------
(* OperationLogger (operation_logger.rs): the journal of operations *)

\* Bound on the number of records in the journal
MaxRecords == 4
\* Bound on the number of operations logged
MaxOperations == 2

\* the operation types logged
LoggedTypes == {"Migrate"}
OperationStatuses == {"Started", "InProgress", "Completed", "Failed", "Cancelled"}

\* Option<u64>
None == <<>>
Some(v) == <<v>>

\* the metrics complete_operation is called with: file_count, total_size (in
\* KiB) and duration_ms
Metrics ==
    {[file_count |-> 100, total_size |-> 10 * 1024, duration_ms |-> 1000],
     [file_count |-> 100, total_size |-> 30 * 1024, duration_ms |-> 3000]}

\* write_log: the record appended to the file, unless the file cannot be
\* opened or written
WriteLog(j, log, io_ok) == IF io_ok THEN Append(j, log) ELSE j

\* what an action of the logger leaves alone
LoggerFrame ==
    UNCHANGED <<mvars, svars, ovars, avars, config, backup_registry, recovery_states,
                uuids, rpc, rstate, outcome, recoveries>>

\* log_operation_start: OperationLog::new (a fresh id, the time read from the
\* clock, status Started, no metrics), written. The clock is followed for a
\* tick per operation.
LogOperationStart(operation_type) ==
    /\ Len(journal) < MaxRecords
    /\ Cardinality(DOMAIN logs) < MaxOperations
    /\ \E elapsed \in {0, 1}, io_ok \in BOOLEAN :
         LET log == [id |-> Cardinality(DOMAIN logs) + 1, timestamp |-> now + elapsed,
                     operation_type |-> operation_type, status |-> "Started",
                     duration_ms |-> None, file_count |-> None, total_size |-> None]
         IN /\ now + elapsed <= MaxOperations
            /\ now' = now + elapsed
            /\ journal' = WriteLog(journal, log, io_ok)
            /\ logs' = IF io_ok THEN With(logs, log.id, log) ELSE logs
    /\ LoggerFrame

\* the caller's log, changed by a method of the logger, is written; its
\* timestamp stays the one OperationLog::new gave it
Rewrite(log) ==
    /\ Len(journal) < MaxRecords
    /\ logs' = With(logs, log.id, log)
    /\ \E io_ok \in BOOLEAN : journal' = WriteLog(journal, log, io_ok)
    /\ now' = now
    /\ LoggerFrame

\* the caller's log takes the status and is written
SetStatus(id, status) == Rewrite([logs[id] EXCEPT !.status = status])

\* update_operation_status(log, status, details)
UpdateOperationStatus(id, status) == SetStatus(id, status)

\* complete_operation(log, file_count, total_size, duration_ms, details)
CompleteOperation(id, m) ==
    Rewrite([logs[id] EXCEPT !.status = "Completed",
                             !.file_count = Some(m.file_count),
                             !.total_size = Some(m.total_size),
                             !.duration_ms = Some(m.duration_ms)])

\* fail_operation(log, ..)
FailOperation(id) == SetStatus(id, "Failed")

\* OperationLogger::cancel_operation(log, ..)
LogCancelOperation(id) == SetStatus(id, "Cancelled")

RECURSIVE InsertByTimestamp(_, _)
\* where a stable sort, latest first, puts log after the sorted records of seq
InsertByTimestamp(seq, log) ==
    IF seq = <<>> THEN <<log>>
    ELSE IF Last(seq).timestamp >= log.timestamp THEN Append(seq, log)
    ELSE Append(InsertByTimestamp(Front(seq), log), Last(seq))

RECURSIVE SortByTimestampDesc(_)
\* logs.sort_by(|a, b| b.timestamp.cmp(&a.timestamp)): stable, latest first
SortByTimestampDesc(seq) ==
    IF seq = <<>> THEN <<>>
    ELSE InsertByTimestamp(SortByTimestampDesc(Front(seq)), Last(seq))

\* Vec::reverse
Reverse(seq) == [i \in 1..Len(seq) |-> seq[Len(seq) + 1 - i]]

\* get_recent_logs(limit): every record of the file, sorted by timestamp,
\* latest first, cut to limit, and reversed
GetRecentLogs(j, limit) ==
    Reverse(SubSeq(SortByTimestampDesc(j), 1, Min(limit, Len(j))))

\* the value of an Option<u64> added to a total (if let Some(..))
Added(option) == IF option = None THEN 0 ELSE option[1]

\* the number of records with the status (the match of get_statistics)
WithStatus(records, status) ==
    Cardinality({i \in 1..Len(records) : records[i].status = status})

RECURSIVE Total(_)
\* the sum of a sequence of numbers
Total(seq) == IF seq = <<>> THEN 0 ELSE Head(seq) + Total(Tail(seq))

\* the totals the loop of get_statistics adds up over the records
Totals(records) ==
    [total_operations |-> Len(records),
     completed_operations |-> WithStatus(records, "Completed"),
     failed_operations |-> WithStatus(records, "Failed"),
     cancelled_operations |-> WithStatus(records, "Cancelled"),
     total_bytes_transferred |->
         Total([i \in 1..Len(records) |-> Added(records[i].total_size)]),
     total_files_processed |->
         Total([i \in 1..Len(records) |-> Added(records[i].file_count)]),
     total_duration_ms |->
         Total([i \in 1..Len(records) |-> Added(records[i].duration_ms)])]

\* the average duration get_statistics ends with
AverageDurationMs(stats) ==
    IF stats.completed_operations > 0
    THEN stats.total_duration_ms \div stats.completed_operations ELSE 0

\* get_statistics: the totals over the most recent 10000 records
GetStatistics(j) == Totals(GetRecentLogs(j, 10000))

\* OperationStatistics::success_rate, a fraction: num / den per cent
SuccessRate(stats) ==
    IF stats.total_operations > 0
    THEN [num |-> stats.completed_operations * 100, den |-> stats.total_operations]
    ELSE [num |-> 0, den |-> 1]

\* OperationStatistics::average_transfer_speed_mbps, a fraction: the MiB
\* (KiB / 1024) over the seconds (ms / 1000)
AverageTransferSpeedMbps(stats) ==
    IF stats.total_duration_ms > 0
    THEN [num |-> stats.total_bytes_transferred * 1000,
          den |-> 1024 * stats.total_duration_ms]
    ELSE [num |-> 0, den |-> 1]

LoggerInit ==
    /\ fs = InitialFs(1, FALSE)
    /\ windows = FALSE
    /\ MigrationIdle
    /\ ScannerIdle
    /\ OthersIdle

LoggerNext ==
    \/ \E operation_type \in LoggedTypes : LogOperationStart(operation_type)
    \/ \E id \in DOMAIN logs, status \in OperationStatuses : UpdateOperationStatus(id, status)
    \/ \E id \in DOMAIN logs, m \in Metrics : CompleteOperation(id, m)
    \/ \E id \in DOMAIN logs : FailOperation(id)
    \/ \E id \in DOMAIN logs : LogCancelOperation(id)

LoggerSpec == LoggerInit /\ [][LoggerNext]_vars

-----------------------------------------------------------------------------
(* The properties of migrate_folder *)

\* the entries at and below `root`, by their path relative to it
SubtreeOf(f, root) ==
    LET loc == Canonicalize(f, root)
    IN IF loc = NoPath THEN <<>>
       ELSE [rel \in {SubSeq(x, Len(loc) + 1, Len(x)) : x \in {loc} \cup Below(f, loc)}
                 |-> IF rel = <<>> THEN KindAt(f, loc) ELSE f[loc \o rel]]

\* every entry of f is in g as it was
Kept(f, g) == \A x \in DOMAIN f : x \in DOMAIN g /\ g[x] = f[x]

RECURSIVE Locate(_, _)
\* where a path that need not exist yet would be: its nearest existing
\* ancestor, canonical, and the remaining names after it
Locate(f, p) ==
    IF PathExists(f, p) THEN Canonicalize(f, p)
    ELSE Locate(f, Front(p)) \o <<Last(p)>>

\* the target lies inside the source's own subtree
InsideSubtree(f, source, target) ==
    PathStartsWith(Locate(f, target), Canonicalize(f, source))

\* the calls that come after Copy in the pipeline
AfterCopy == {"verify", "delete_target", "link", "rename", "delete_source"}

\* C1: delete_path(source) is issued only if delete_source is set and the Link
\* step did not rename the source to <source>.backup
C1_DeleteOnlyWithoutRename ==
    "delete_source" \in issued => (opts.delete_source /\ "rename" \notin issued)

\* C2: when migrate_folder returns success, everything Verify saw at and below
\* the target is still there, unchanged
C2_TargetSurvivesSuccess ==
    (pc = "done" /\ result.success) =>
        LET loc == Canonicalize(verified, opts.target_path)
        IN \A x \in {loc} \cup Below(verified, loc) :
               x \in DOMAIN fs /\ fs[x] = verified[x]

\* C3: with nothing in its way (no cancellation, no refused call, no other
\* program, paths that pass the safety rules, room on the disk), migrating an
\* existing directory to a non-existent target outside it, with neither link
\* nor delete asked for, returns success, leaves the source as it was and
\* gives the target the source's entry names
C3_MigrateOutsideSucceeds ==
    (/\ pc = "done"
     /\ IsDir(pre, opts.source_path)
     /\ ~PathExists(pre, opts.target_path)
     /\ ~InsideSubtree(pre, opts.source_path, opts.target_path)
     /\ ~opts.create_symlink
     /\ ~opts.delete_source
     /\ faults = {}
     /\ ValidatePathSecurity(opts.source_path, opts.target_path, windows) = "ok"
     /\ CheckDiskSpace(pre, opts.source_path, opts.target_path)) =>
        /\ result.success
        /\ SubtreeOf(fs, opts.source_path) = SubtreeOf(pre, opts.source_path)
        /\ IsDir(fs, opts.target_path)
        /\ ReadDir(fs, opts.target_path) = ReadDir(pre, opts.source_path)

\* C4: for valid paths, an existing source and a target that does not exist,
\* validate_migration_path answers "cannot migrate into a subdirectory"
\* exactly when the target lies inside the source's subtree
C4_SubdirectoryRejectedExactly ==
    \A source \in Sources, target \in Targets :
        (/\ ValidatePath(source)
         /\ ValidatePath(target)
         /\ PathExists(fs, source)
         /\ ~PathExists(fs, target)) =>
            ((ValidateMigrationPath(fs, source, target) = "into_subdirectory")
                <=> InsideSubtree(fs, source, target))

\* C5: when migrate_folder returns a PreCheck failure, the filesystem is what
\* it was before the call
C5_PreCheckFailureChangesNothing ==
    (pc = "done" /\ result.message = "precheck_failed") => fs = pre

\* C9: after PreCheck, every file named .write_test.tmp that was there before
\* is still there with its content
C9_ProbeKeepsExistingFile ==
    issued = {"precheck"} =>
        \A x \in DOMAIN pre :
            Last(x) = ".write_test.tmp" => (x \in DOMAIN fs /\ fs[x] = pre[x])

\* C6: when Verify fails, delete_path(target) is attempted (and, unless it is
\* cancelled or refused, the target is gone), the result is a failure without
\* symlink_path, neither Link nor Delete-source has run, and the source is as
\* Verify saw it
C6_VerifyFailureCleansTarget ==
    (pc = "done" /\ result.message = "verify_failed") =>
        /\ "delete_target" \in issued
        /\ (~cancel_flag /\ "io_cleanup" \notin faults) => ~PathExists(fs, opts.target_path)
        /\ ~result.success
        /\ result.symlink_path = NoPath
        /\ issued \cap {"link", "rename", "delete_source"} = {}
        /\ SubtreeOf(fs, opts.source_path) = SubtreeOf(verified, opts.source_path)

\* a Verify failure whose cleanup removed the copy and left the source
C6_Witness ==
    /\ pc = "done"
    /\ result.message = "verify_failed"
    /\ PathExists(verified, opts.target_path)
    /\ ~PathExists(fs, opts.target_path)
    /\ IsDir(fs, opts.source_path)

\* C7: while copy_path runs nothing is removed and the source's subtree stays
\* as it is, and when it fails migrate_folder returns a failure with none of
\* Verify, the cleanup, Link and Delete-source issued
C7_CopyFailureLeavesSource ==
    [][(pc \in {"copy", "copying"}) =>
          (/\ Kept(fs, fs')
           /\ SubtreeOf(fs', opts.source_path) = SubtreeOf(fs, opts.source_path)
           /\ (pc' = "done") =>
                 (/\ ~result'.success
                  /\ result'.message = "copy_failed"
                  /\ issued' \cap AfterCopy = {}))]_vars

\* C8: Link and Delete-source are reached only after PreCheck, Copy and Verify
\* succeeded, and from there migrate_folder can only return success
C8_SuccessOnceVerified ==
    /\ [](pc \in {"link", "delete"} =>
             ({"precheck", "copy", "verify"} \subseteq issued /\ "delete_target" \notin issued))
    /\ [][(pc = "link" => pc' \in {"link", "delete"})
          /\ (pc = "delete" => (pc' = "delete" \/ (pc' = "done" /\ result'.success)))]_vars

\* success returned although the link was refused and the deletion of the
\* source was refused
C8_Witness ==
    /\ pc = "done"
    /\ result.success
    /\ opts.create_symlink
    /\ opts.delete_source
    /\ result.symlink_path = NoPath
    /\ "io_delete" \in faults
    /\ {"io_rename", "io_symlink"} \cap faults # {}

-----------------------------------------------------------------------------
(* The properties of the scanner *)

\* a scan is in flight
ScanInFlight == scan_pc \in {"call", "loop"}

\* the scan is about to read the cancel flag: at the start of a directory
\* call, or before an entry of the loop
AtCheck == scan_pc = "call" \/ (scan_pc = "loop" /\ Head(stack).entries # <<>>)

\* some read of the cancel flag is still ahead of the scan
CheckLeft == scan_pc = "call" \/ \E i \in 1..Len(stack) : stack[i].entries # <<>>

RECURSIVE EntriesStarted(_)
\* the number of entries the loops of the frames have started
EntriesStarted(frames) ==
    IF frames = <<>> THEN 0
    ELSE Head(frames).entry_count + EntriesStarted(Tail(frames))

\* this step starts no entry and enters no directory
NoEntryStarted ==
    /\ Len(stack') <= Len(stack)
    /\ EntriesStarted(stack') <= EntriesStarted(stack)
    /\ scan_pc' # "call"

\* C10 as stated: once the flag is set while a scan is in flight, no entry is
\* started, the progress is not updated, and the scan ends cancelled
C10_NothingAfterCancel ==
    [][(scan_cancel /\ ScanInFlight) =>
          (/\ NoEntryStarted
           /\ progress' = progress
           /\ (scan_pc' = "done") => (scan_result' = Cancelled))]_vars

\* C10, amended: once the flag is set while a scan is in flight, no entry is
\* started and no directory entered; the next read of the flag ends the scan
\* cancelled with the progress as it was; while a read of the flag is ahead
\* the scan returns no tree; and the progress changes only where a directory
\* whose loop is over is finished
C10_CancelStopsAtNextCheck ==
    [][(scan_cancel /\ ScanInFlight) =>
          (/\ NoEntryStarted
           /\ AtCheck => (scan_pc' = "done" /\ scan_result' = Cancelled /\ progress' = progress)
           /\ CheckLeft => ~(scan_pc' = "done" /\ scan_result'.kind = "tree")
           /\ (progress' # progress) => (scan_pc = "loop" /\ Head(stack).entries = <<>>))]_vars

\* a scan that had entered /a/sub and was cancelled
C10_Witness ==
    /\ scan_pc = "done"
    /\ scan_cancel
    /\ scan_result = Cancelled
    /\ progress.current_directory = "/a/sub"

\* C11: a scan called while the cancel flag is set returns the cancelled
\* error, whatever the path and the mode, and a scan called and finished with
\* the flag clear does not
C11_CancelSticky ==
    /\ []((scan_pc = "done" /\ called_cancelled) => scan_result = Cancelled)
    /\ [][(~scan_cancel /\ scan_pc' = "done" /\ (scan_pc # "done" \/ scans' # scans)) =>
             scan_result' # Cancelled]_vars

-----------------------------------------------------------------------------
(* The properties of a FileOperator in direct use *)

\* C12: a call of copy_path, delete_path or create_symlink that meets the
\* cancel flag set returns OperationCancelled, and an operator whose flag is
\* set can be rearmed: some step of the operator clears the flag
C12_OperatorCancelSticky ==
    /\ (op_last.name # "none" /\ op_last.cancelled) => op_last.err = "OperationCancelled"
    /\ cancel_flag => ENABLED (OperatorNext /\ cancel_flag' = FALSE)

-----------------------------------------------------------------------------
(* The properties of the ErrorRecoveryManager *)

\* this step is handle_error (or handle_rollback on its own) returning
Returned == rpc' = "idle" /\ (rpc # "idle" \/ recoveries' # recoveries)

\* an active backup of /p/a that holds the file f
BackedUp ==
    \E id \in DOMAIN backup_registry :
        /\ backup_registry[id].original_path = <<"p", "a">>
        /\ backup_registry[id].is_active
        /\ PathExists(fs, Join(backup_registry[id].backup_path, "f"))

\* C13: when /p/a has been backed up and its file f has then been deleted,
\* handle_error called with an I/O error (automatic recovery enabled) reports
\* success and f exists again under /p/a
C13_RollbackRestoresFile ==
    [][(/\ Returned
        /\ config.enable_auto_recovery
        /\ outcome'.arg.error = "IoError"
        /\ BackedUp
        /\ ~PathExists(fs, <<"p", "a", "f">>))
       => (outcome'.ok /\ PathExists(fs', <<"p", "a", "f">>))]_vars

C15_RetryBounded ==
    /\ [](/\ rstate.attempts <= rstate.retry_count
          /\ rstate.retry_count <= rstate.max_retries
          /\ rstate.slept_ms = config.retry_delay_ms * rstate.retry_count
          /\ rstate.attempts = IF rpc = "attempt" THEN rstate.retry_count - 1
                               ELSE rstate.retry_count
          /\ \A id \in DOMAIN recovery_states :
                 recovery_states[id].retry_count <= recovery_states[id].max_retries)
    /\ (rpc = "retry" ~> rpc = "idle")

C15_Witness ==
    /\ rpc = "idle"
    /\ outcome.call = "handle_error"
    /\ outcome.arg.strategy = "Retry"
    /\ outcome.arg.max_retries = 3
    /\ outcome.arg.attempts >= 1
    /\ outcome.arg.slept_ms >= config.retry_delay_ms
    /\ recovery_states[outcome.arg.operation_id].retry_count >= 1

\* C16: Rollback for an operation that has no backup returns RollbackFailed
\* with the message "no backup available" and changes nothing on disk or in
\* the registry
C16_NoBackupNoChange ==
    [][(/\ Returned
        /\ outcome'.arg.strategy = "Rollback"
        /\ FindBackupForOperation(backup_registry, outcome'.arg.operation_id) = {0})
       => (/\ outcome'.err = "RollbackFailed"
           /\ outcome'.message = "no backup available"
           /\ fs' = fs
           /\ backup_registry' = backup_registry)]_vars

\* C17: when several active backups match the operation id, the lookup of
\* Rollback returns one that none of them is more recent than
C17_LatestBackupFound ==
    [][(/\ Returned
        /\ outcome'.arg.strategy = "Rollback"
        /\ outcome'.found # 0)
       => (\A id \in FindBackupForOperation(backup_registry, outcome'.arg.operation_id) :
               backup_registry[id].created_at <=
                   backup_registry[outcome'.found].created_at)]_vars

\* the ceiling on the size of a backup, max_rollback_size_mb MiB, in KiB
Ceiling == config.max_rollback_size_mb * 1024

\* C18: create_backup of a subtree larger than max_rollback_size_mb MiB
\* returns BackupTooLarge, copies nothing and registers nothing; a subtree of
\* at most that size is never rejected as too large
C18_CeilingExact ==
    [][\A b \in BackupRequests :
          CreateBackup(b.source_path, b.operation_type, "cleanup_op_1") =>
              LET size == RecoveryDirectorySize(fs, b.source_path)
              IN /\ (size.ok /\ size.size > Ceiling) =>
                        (/\ outcome'.err = "BackupTooLarge"
                         /\ fs' = fs
                         /\ backup_registry' = backup_registry)
                 /\ (size.ok /\ size.size <= Ceiling) => outcome'.err # "BackupTooLarge"]_vars

\* a file exactly as large as the ceiling has been backed up and the
\* directory around it, 1 KiB larger, has been rejected
C18_Witness ==
    /\ outcome.call = "create_backup"
    /\ outcome.err = "BackupTooLarge"
    /\ \E id \in DOMAIN backup_registry : backup_registry[id].backup_size = Ceiling
    /\ RecoveryDirectorySize(fs, <<"p", "a">>).size = Ceiling + 1

\* C19: cleanup_expired_backups removes from the registry exactly the records
\* older than backup_retention_hours, deletes their backup paths, leaves the
\* other records and their paths as they are, and returns the number of
\* records it removed
C19_CleanupExact ==
    [][CleanupExpiredBackups =>
          LET expired == {id \in DOMAIN backup_registry :
                            backup_registry[id].created_at <
                                now - config.backup_retention_hours}
              others == (DOMAIN backup_registry) \ expired
          IN /\ backup_registry' = [id \in others |-> backup_registry[id]]
             /\ \A id \in expired : ~PathExists(fs', backup_registry[id].backup_path)
             /\ \A id \in others :
                    LET kept == {backup_registry[id].backup_path}
                                   \cup Below(fs, backup_registry[id].backup_path)
                    IN \A x \in kept \cap DOMAIN fs : x \in DOMAIN fs' /\ fs'[x] = fs[x]
             /\ outcome'.count = Cardinality(expired)]_vars

-----------------------------------------------------------------------------
(* The properties of the OperationLogger *)

\* the statuses of the records of operation id, in the order they were appended
StatusesOf(id) ==
    LET records == SelectSeq(journal, LAMBDA r : r.id = id)
    IN [i \in 1..Len(records) |-> records[i].status]

\* C20: for every operation id the statuses of its records in the journal
\* are Started, then InProgress any number of times, then at most one of
\* Completed, Failed and Cancelled, after which the id has no further record
C20_LifecycleOrder ==
    \A id \in DOMAIN logs :
        LET s == StatusesOf(id)
        IN \A i \in 1..Len(s) :
               /\ i = 1 => s[i] = "Started"
               /\ (1 < i /\ i < Len(s)) => s[i] = "InProgress"
               /\ (1 < i /\ i = Len(s)) =>
                      s[i] \in {"InProgress", "Completed", "Failed", "Cancelled"}

\* the last n records appended to the journal, oldest first
LastAppended(n) ==
    SubSeq(journal, Len(journal) + 1 - Min(n, Len(journal)), Len(journal))

\* C21: get_recent_logs(N) returns the N records appended last, for every N;
\* so when the last record appended for an operation is its Completed record,
\* get_recent_logs(1) returns that record, with its file count and total size
C21_RecentLogsAreLatest ==
    \A n \in 0..MaxRecords : GetRecentLogs(journal, n) = LastAppended(n)

\* the status of every record is the one written for its operation at the
\* time, and the operations completed are those in ids
ThroughToCompleted(ids) ==
    /\ DOMAIN logs = ids
    /\ \A id \in ids :
         /\ logs[id].operation_type = "Migrate"
         /\ StatusesOf(id) \in {<<"Started", "Completed">>,
                                <<"Started", "InProgress", "Completed">>}

\* C22: the timestamps of the records never decrease along the journal, among
\* the records of one operation and across operations
C22_TimestampsNonDecreasing ==
    \A i, k \in 1..Len(journal) :
        i < k => journal[i].timestamp <= journal[k].timestamp

\* C23: when two Migrate operations, and nothing else, have been journaled
\* through to Completed, one with 1000 ms and 10 MiB and the other with
\* 3000 ms and 30 MiB, get_statistics reports an average duration of 2000 ms,
\* a success rate of 100 % and an average speed of 10 MB/s
C23_StatisticsPerOperation ==
    LET stats == GetStatistics(journal)
    IN (/\ ThroughToCompleted({1, 2})
        /\ {logs[1].duration_ms, logs[2].duration_ms} = {Some(1000), Some(3000)}
        /\ {logs[1].total_size, logs[2].total_size} = {Some(10 * 1024), Some(30 * 1024)})
       => /\ AverageDurationMs(stats) = 2000
          /\ SuccessRate(stats).num = 100 * SuccessRate(stats).den
          /\ AverageTransferSpeedMbps(stats).num = 10 * AverageTransferSpeedMbps(stats).den
          /\ stats.total_operations = 2

-----------------------------------------------------------------------------
(* The properties of the trees the scanner returns *)

RECURSIVE NodesAt(_, _)
\* the nodes of the tree below node, each with its depth, node being at depth
NodesAt(node, depth) ==
    {<<node, depth>>} \cup
        UNION {NodesAt(node.subdirectories[i], depth + 1) :
                   i \in 1..Len(node.subdirectories)}

\* a scan has returned a tree
TreeReturned == scan_pc = "done" /\ scan_result.kind = "tree"

\* the nodes of the tree returned
TreeNodes == IF TreeReturned THEN {nd[1] : nd \in NodesAt(scan_result.node, 0)} ELSE {}

\* the path a node stands for
PathOf(node) == CHOOSE p \in ScanPaths \cup DOMAIN fs : PathStr(p) = node.path

\* the sizes of the files directly in the directory
DirectFileSizes(path) ==
    LET files == SelectSeq(ReadDir(fs, path), LAMBDA n : ~IsDir(fs, Join(path, n)))
    IN Total([i \in 1..Len(files) |-> fs[EntryLoc(fs, Join(path, files[i]))].size])

\* the size of the node is that of the files directly in its directory plus
\* the sizes of its child nodes
SizeIsSum(node) ==
    node.size = DirectFileSizes(PathOf(node))
                    + Total([i \in 1..Len(node.subdirectories) |->
                                 node.subdirectories[i].size])

\* C24 as stated: every node of a returned tree has the size of the files
\* directly in it plus the sizes of its children
C24_EveryNodeSizeIsSum == \A node \in TreeNodes : SizeIsSum(node)

\* the scan did not read the directory of the node, found at the depth
NotRead(node, depth) ==
    \/ depth > analyzer.max_depth
    \/ \E u \in unread : u.path = node.path
    \/ IsSystemDir(PathOf(node))

\* C24, amended: every node of a returned tree whose directory the scan read
\* has the size of the files directly in it plus the sizes of its children,
\* and every node whose directory it did not read (deeper than max_depth,
\* read_dir failed, or a system directory at the root) has size 0, file count
\* 0 and no children
C24_ReadNodeSizeIsSum ==
    TreeReturned =>
        \A nd \in NodesAt(scan_result.node, 0) :
            IF NotRead(nd[1], nd[2])
            THEN nd[1] = Stub(nd[1].path, nd[1].name)
            ELSE SizeIsSum(nd[1])

\* a tree whose root was read and has a child that was read and one file
\* counted in it
C24_Witness ==
    /\ TreeReturned
    /\ scan_result.node.size = 300
    /\ Len(scan_result.node.subdirectories) = 1
    /\ scan_result.node.subdirectories[1].size = 100
    /\ unread = {}

\* the scan of /a has returned its tree and every read_dir succeeded
ScannedA(max_depth) ==
    /\ TreeReturned
    /\ scan_result.node.path = "/a"
    /\ analyzer.max_depth = max_depth
    /\ unread = {}

\* C25: the scan of a/{f1, f2, sub/{f3}}, files of 100 B, with max_depth = 1
\* returns a root of size 200 with the child sub as a node of size 0
C25_DepthOneCountsDirectFiles ==
    ScannedA(1) =>
        /\ scan_result.node.size = 200
        /\ Len(scan_result.node.subdirectories) = 1
        /\ scan_result.node.subdirectories[1].name = "sub"
        /\ scan_result.node.subdirectories[1].size = 0

\* C26: the scan of the same tree with max_depth = 3 returns a root of size
\* 300 and file_count 3 whose only subdirectory is sub, of size 100
C26_DepthThreeCountsAll ==
    ScannedA(3) =>
        /\ scan_result.node.size = 300
        /\ scan_result.node.file_count = 3
        /\ Len(scan_result.node.subdirectories) = 1
        /\ scan_result.node.subdirectories[1].name = "sub"
        /\ scan_result.node.subdirectories[1].size = 100

\* C27: a scan that was not cancelled returns an error when read_dir failed
\* on its root with an error other than PermissionDenied, and returns a tree
\* when read_dir failed on child directories only
C27_OnlyRootReadErrorSurfaces ==
    (scan_pc = "done" /\ scans > 0 /\ scan_result # Cancelled) =>
        /\ (\E u \in unread : u.depth = 0 /\ u.kind = "error") =>
               scan_result.kind = "read_failed"
        /\ (unread # {} /\ \A u \in unread : u.depth > 0) => scan_result.kind = "tree"

\* this step ends a scan
Completes == scan_pc' = "done" /\ (scan_pc # "done" \/ scans' # scans)

\* the nodes of the tree below node that are flagged as large folders
LargeNodes(node) == {nd \in NodesAt(node, 0) : nd[1].is_large_folder}

\* C29: when a scan ends with a tree, large_folders_found is the number of
\* nodes of the tree whose is_large_folder is true, in either mode
C29_LargeFoldersCounted ==
    [][(Completes /\ scan_result'.kind = "tree") =>
          progress'.large_folders_found = Cardinality(LargeNodes(scan_result'.node))]_vars

\* C30: every node of a returned tree, the nodes of directories that were not
\* read included, has is_large_folder true exactly when its size is at least
\* the large_folder_threshold, whatever the threshold
C30_LargeFlagIffOverThreshold ==
    \A node \in TreeNodes :
        node.is_large_folder <=> node.size >= analyzer.large_folder_threshold

\* C28: while the first scan of an analyzer is in flight, no step lowers the
\* processed_files of the progress
C28_ProcessedFilesMonotone ==
    [][(ScanInFlight /\ scans = 1) =>
          progress'.processed_files >= progress.processed_files]_vars

-----------------------------------------------------------------------------
(* The strategy handle_error chooses *)

\* the variants of ErrorType
ErrorTypes ==
    {"PermissionDenied", "PathNotFound", "PathAlreadyExists", "InvalidPath",
     "OperationCancelled", "IoError", "DiskSpaceInsufficient", "SystemProtection",
     "NetworkError", "Timeout", "Unknown"}

\* the strategy and retry count the table gives for an error kind
StrategyTable(auto, kind) ==
    IF ~auto THEN <<"Manual", 0>>
    ELSE CASE kind \in {"OperationCancelled", "PathAlreadyExists"} -> <<"Skip", 0>>
           [] kind = "PathNotFound" -> <<"Retry", 2>>
           [] kind = "PermissionDenied" -> <<"Manual", 0>>
           [] kind = "IoError" -> <<"Retry", 3>>
           [] kind \in {"DiskSpaceInsufficient", "SystemProtection"} -> <<"Abort", 0>>
           [] OTHER -> <<"Manual", 0>>

\* the recovery states handle_error has made: the recorded ones and the one
\* of the call in flight
RecoveryStatesMade ==
    {recovery_states[id] : id \in DOMAIN recovery_states}
        \cup (IF rstate = NoRecoveryState THEN {} ELSE {rstate})

\* C36: the strategy of every recovery state handle_error makes is the one
\* the table gives for its error kind under the manager's configuration, and
\* classification, severity and strategy composed give the table for every
\* error kind
C36_StrategyIsTable ==
    /\ \A rs \in RecoveryStatesMade :
           <<rs.strategy, rs.max_retries>>
               = StrategyTable(config.enable_auto_recovery, rs.error)
    /\ \A kind \in ErrorTypes :
           LET strategy == DetermineRecoveryStrategy(config, kind, DetermineSeverity(kind))
           IN <<strategy.name, strategy.n>>
                  = StrategyTable(config.enable_auto_recovery, kind)

\* handle_error has chosen Retry(3) for an I/O error with automatic recovery
\* on, and Manual for an error with automatic recovery off
C36_Witness ==
    \E rs \in RecoveryStatesMade :
        \/ config.enable_auto_recovery /\ rs.error = "IoError" /\ rs.strategy = "Retry"
               /\ rs.max_retries = 3 /\ rs.is_recovered
        \/ ~config.enable_auto_recovery /\ rs.error = "OperationCancelled"
               /\ rs.strategy = "Manual"

-----------------------------------------------------------------------------
(* MigrationService: the path pre-checks called on their own *)

\* The paths the pre-checks are called with: under the Windows directory as
\* written and in lower case, a user's directory on C: and on D:, a program
\* directory, two paths without a drive, and a colon inside a name
CheckPaths ==
    {<<"C:", "Windows", "System32">>, <<"c:", "windows", "system32">>,
     <<"C:", "Users", "u", "data">>, <<"D:", "data">>, <<"C:", "Program Files", "app">>,
     <<"p", "a">>, <<"q", "b">>, <<"C:", "Users", "u", "a:b">>, <<"q", "a:b">>}

ChecksFrame ==
    UNCHANGED <<mvars, svars, ovars, rvars, lvars, appdata, lock, commands, batch, appmig,
                log_files>>

\* validate_path_security(source, target) is called
CallValidatePathSecurity(source, target) ==
    /\ checked' = [name |-> "validate_path_security", source |-> source,
                   target |-> target,
                   answer |-> ValidatePathSecurity(source, target, windows)]
    /\ ChecksFrame

\* check_system_protection(source, target) is called
CallCheckSystemProtection(source, target) ==
    /\ checked' = [name |-> "check_system_protection", source |-> source,
                   target |-> target,
                   answer |-> IF CheckSystemProtection(fs, source, target)
                              THEN "ok" ELSE "protected"]
    /\ ChecksFrame

ChecksInit ==
    /\ fs = InitialFs(1, FALSE)
    /\ windows \in BOOLEAN
    /\ MigrationIdle
    /\ ScannerIdle
    /\ OthersIdle

ChecksNext ==
    \/ \E source \in CheckPaths, target \in CheckPaths :
           CallValidatePathSecurity(source, target)
    \/ \E source \in CheckPaths, target \in CheckPaths :
           CallCheckSystemProtection(source, target)

ChecksSpec == ChecksInit /\ [][ChecksNext]_vars

\* the path begins with an entry of the blocklist, letter case aside
OnBlocklist(path) ==
    \E i \in 1..Len(SystemPaths) :
        StartsWith(ToUpper(PathStr(path)), ToUpper(SystemPaths[i]))

\* C34: a call of check_system_protection whose source or target begins with
\* an entry of the system-protection blocklist, compared without regard to
\* letter case, is rejected
C34_BlocklistRejected ==
    (/\ checked.name = "check_system_protection"
     /\ OnBlocklist(checked.source) \/ OnBlocklist(checked.target))
        => checked.answer # "ok"

\* the positions of the colons of a string
Colons(str) == {i \in 1..Len(str) : SubSeq(str, i, i) = ":"}

\* C35: on Windows validate_path_security does not reject a pair of paths for
\* an illegal character when the only colon of each is the drive separator,
\* and it rejects a pair with a colon anywhere else
C35_DriveColonAccepted ==
    (checked.name = "validate_path_security" /\ windows) =>
        LET ss == PathStr(checked.source)
            ts == PathStr(checked.target)
        IN /\ (Colons(ss) \subseteq {2} /\ Colons(ts) \subseteq {2}) =>
                  checked.answer = "ok"
           /\ ~(Colons(ss) \subseteq {2} /\ Colons(ts) \subseteq {2}) =>
                  checked.answer = "invalid_char"

-----------------------------------------------------------------------------
(* AppDataAnalyzer (appdata_analyzer.rs) *)

\* Seconds a cached scan result is served for (line 150)
CacheSeconds == 300

\* Latest reading of the monotonic clock in one behaviour, in seconds
MaxAppClock == 400

\* %USERPROFILE%
UserProfile == <<"C:", "Users", "u">>

\* get_appdata_path: %USERPROFILE%\AppData
AppDataPath == Join(UserProfile, "AppData")

GiB == 1024 * 1024

\* A profile with Local\{a, b}, LocalLow\{f} and Roaming\{d1\{g}, m}: the
\* sizes, in KiB, of a, f and g are given; b and m are small
AppDataTree(local, local_low, roaming) ==
    LET Bucket(name) == Join(AppDataPath, name)
        dirs == {<<"C:">>, <<"C:", "Users">>, UserProfile, AppDataPath, Bucket("Local"),
                 Bucket("LocalLow"), Bucket("Roaming"), Join(Bucket("Roaming"), "d1")}
        files == [x \in {Join(Bucket("Local"), "a"), Join(Bucket("Local"), "b"),
                         Join(Bucket("LocalLow"), "f"),
                         Join(Join(Bucket("Roaming"), "d1"), "g"),
                         Join(Bucket("Roaming"), "m")} |->
                     IF x[5] = "Local" THEN (IF Last(x) = "a" THEN local ELSE 1)
                     ELSE IF x[5] = "LocalLow" THEN local_low
                     ELSE IF Last(x) = "g" THEN roaming ELSE 1]
    IN [x \in dirs \cup DOMAIN files |->
           IF x \in dirs THEN DirNode ELSE FileNode(files[x], "")]

\* The trees scan_appdata runs on: two profiles with items of 1.5 to 3 GiB,
\* and a profile without AppData
AppDataTrees ==
    {AppDataTree(2 * GiB, 3 * GiB, GiB + GiB \div 2),
     AppDataTree(3 * GiB, 2 * GiB, GiB + GiB \div 2),
     [x \in {<<"C:">>, <<"C:", "Users">>, UserProfile} |-> DirNode]}

\* The configurations set_config is called with
AppDataConfigs ==
    [min_size_threshold : {GiB, 2 * GiB + GiB \div 2}, max_depth : {2},
     sort_order : {"Desc", "Asc"}]

RECURSIVE DirectorySizeEntries(_, _, _, _)
\* get_directory_size_sync, the loop over the entries `names` of `path`
DirectorySizeEntries(f, path, names, fuel) ==
    IF names = <<>> THEN 0
    ELSE LET e == Join(path, Head(names))
             sz == IF IsFile(f, e) THEN f[Canonicalize(f, e)].size
                   ELSE IF IsDir(f, e) /\ fuel > 0
                   THEN DirectorySizeEntries(f, e, ReadDir(f, e), fuel - 1)
                   ELSE 0
         IN sz + DirectorySizeEntries(f, path, Tail(names), fuel)

\* get_item_info_sync: [ok, size, item_type]
GetItemInfoSync(f, path) ==
    IF IsFile(f, path)
    THEN [ok |-> TRUE, size |-> f[Canonicalize(f, path)].size, item_type |-> "file"]
    ELSE IF IsDir(f, path)
    THEN [ok |-> TRUE, size |-> DirectorySizeEntries(f, path, ReadDir(f, path), Fuel),
          item_type |-> "directory"]
    ELSE [ok |-> FALSE, size |-> 0, item_type |-> ""]

\* the AppDataFirstLevelItem of an entry (lines 323-339); size_percentage is
\* [size * 100, total so far]
FirstLevelItem(entry_path, name, info, total_size, cfg, parent_type) ==
    [path |-> PathStr(entry_path), name |-> name,
     size |-> info.size, item_type |-> info.item_type,
     parent_type |-> parent_type,
     is_large |-> info.size >= cfg.min_size_threshold,
     size_percentage |-> IF total_size > 0 THEN <<info.size * 100, total_size>>
                         ELSE <<0, 1>>]

\* scan_first_level_items, one turn of the loop: an entry whose information
\* cannot be read is left out
WithEntry(sofar, entry_path, name, info, cfg, parent_type) ==
    IF info.ok
    THEN [items |-> Append(sofar.items,
                           FirstLevelItem(entry_path, name, info,
                                          sofar.total_size + info.size, cfg, parent_type)),
          total_size |-> sofar.total_size + info.size]
    ELSE sofar

RECURSIVE FirstLevelItems(_, _, _, _, _, _)
\* scan_first_level_items, the loop over the entries `names` of `path`:
\* [items, total_size]
FirstLevelItems(f, cfg, path, parent_type, names, sofar) ==
    IF names = <<>> THEN sofar
    ELSE FirstLevelItems(f, cfg, path, parent_type, Tail(names),
                         WithEntry(sofar, Join(path, Head(names)), Head(names),
                                   GetItemInfoSync(f, Join(path, Head(names))),
                                   cfg, parent_type))

RECURSIVE InsertBySizeAsc(_, _)
\* where a stable ascending sort puts item after the sorted items of seq
InsertBySizeAsc(seq, item) ==
    IF seq = <<>> THEN <<item>>
    ELSE IF Last(seq).size <= item.size THEN Append(seq, item)
    ELSE Append(InsertBySizeAsc(Front(seq), item), Last(seq))

RECURSIVE SortBySizeAsc(_)
\* items.sort_by(|a, b| a.size.cmp(&b.size)): stable, smallest first
SortBySizeAsc(seq) ==
    IF seq = <<>> THEN <<>>
    ELSE InsertBySizeAsc(SortBySizeAsc(Front(seq)), Last(seq))

\* scan_first_level_items, the sort at its end (lines 362-371)
SortedBucket(r, cfg) ==
    [items |-> IF cfg.sort_order = "Desc" THEN SortBySizeDesc(r.items)
               ELSE SortBySizeAsc(r.items),
     total_size |-> r.total_size]

\* scan_first_level_items: [items, total_size] of one bucket, the items
\* sorted as the configuration says.  A bucket that does not exist, or one
\* that cannot be read by either implementation, gives no items
ScanFirstLevelItems(f, cfg, path, parent_type) ==
    IF ~IsDir(f, path) THEN [items |-> <<>>, total_size |-> 0]
    ELSE SortedBucket(FirstLevelItems(f, cfg, path, parent_type, ReadDir(f, path),
                                      [items |-> <<>>, total_size |-> 0]),
                      cfg)

\* the items of a list that reach the threshold
LargeOf(items, threshold) == SelectSeq(items, LAMBDA item : item.size >= threshold)

\* scan_appdata, the report made from the cache (lines 145-169)
CachedReport(cached, cfg) ==
    [local_path |-> "", local_low_path |-> "", roaming_path |-> "",
     local_size |-> 0, local_low_size |-> 0, roaming_size |-> 0,
     total_size |-> cached.total_size,
     first_level_items |-> cached.items,
     large_items |-> LargeOf(cached.items, cfg.min_size_threshold)]

\* scan_appdata, the report made of the three buckets (lines 222-262)
MergedReport(local, local_low, roaming, items, cfg) ==
    [local_path |-> PathStr(Join(AppDataPath, "Local")),
     local_low_path |-> PathStr(Join(AppDataPath, "LocalLow")),
     roaming_path |-> PathStr(Join(AppDataPath, "Roaming")),
     local_size |-> local.total_size, local_low_size |-> local_low.total_size,
     roaming_size |-> roaming.total_size,
     total_size |-> local.total_size + local_low.total_size + roaming.total_size,
     first_level_items |-> items,
     large_items |-> LargeOf(items, cfg.min_size_threshold)]

\* scan_appdata, the three buckets put one after the other (lines 222-235)
MergedBuckets(local, local_low, roaming, cfg) ==
    MergedReport(local, local_low, roaming,
                 local.items \o local_low.items \o roaming.items, cfg)

\* scan_appdata, the report of a scan (lines 176-290)
ScannedReport(f, cfg) ==
    MergedBuckets(ScanFirstLevelItems(f, cfg, Join(AppDataPath, "Local"), "Local"),
                  ScanFirstLevelItems(f, cfg, Join(AppDataPath, "LocalLow"), "LocalLow"),
                  ScanFirstLevelItems(f, cfg, Join(AppDataPath, "Roaming"), "Roaming"),
                  cfg)

\* scan_appdata, the report of a scan returned and cached (lines 264-290)
Scanned(report) ==
    [appdata EXCEPT
       !.report = <<report>>,
       !.served = "scan",
       !.asked = appdata.config,
       !.scan_cache = <<[items |-> report.first_level_items,
                         total_size |-> report.total_size,
                         timestamp |-> appdata.clock]>>]

AppDataFrame ==
    UNCHANGED <<mvars, svars, ovars, rvars, lvars, checked, lock, commands, batch, appmig,
                log_files>>

\* set_config
SetConfig(cfg) ==
    /\ appdata.config # cfg
    /\ appdata' = [appdata EXCEPT !.config = cfg]
    /\ AppDataFrame

\* time passes
Elapse(seconds) ==
    /\ appdata.clock + seconds <= MaxAppClock
    /\ appdata' = [appdata EXCEPT !.clock = @ + seconds]
    /\ AppDataFrame

\* scan_appdata (lines 140-291): the cached result while it is fresh, or else
\* the three buckets scanned, merged and cached
ScanAppdata ==
    /\ IF /\ appdata.scan_cache # <<>>
          /\ appdata.clock - appdata.scan_cache[1].timestamp < CacheSeconds
       THEN appdata' = [appdata EXCEPT
                          !.report = <<CachedReport(appdata.scan_cache[1], appdata.config)>>,
                          !.served = "cache", !.asked = appdata.config]
       ELSE IF ~PathExists(fs, AppDataPath)
       THEN appdata' = [appdata EXCEPT !.report = <<>>, !.served = "error",
                                       !.asked = appdata.config]
       ELSE appdata' = Scanned(ScannedReport(fs, appdata.config))
    /\ AppDataFrame

AppDataInit ==
    /\ fs \in AppDataTrees
    /\ windows = TRUE
    /\ MigrationIdle
    /\ ScannerIdle
    /\ OthersIdle

AppDataNext ==
    \/ \E cfg \in AppDataConfigs : SetConfig(cfg)
    \/ \E seconds \in {100, 200} : Elapse(seconds)
    \/ ScanAppdata

AppDataSpec == AppDataInit /\ [][AppDataNext]_vars

\* the reports scan_appdata has returned
Reports == IF appdata.report = <<>> THEN {} ELSE {appdata.report[1]}

\* C31: the first_level_items of every report are in order of size across
\* the three buckets: no item is followed by a larger one by default, and
\* none by a smaller one when the order is ascending
C31_ItemsSortedAcrossBuckets ==
    \A report \in Reports :
        LET items == report.first_level_items
        IN \A i \in 1..(Len(items) - 1) :
               IF appdata.asked.sort_order = "Desc"
               THEN items[i].size >= items[i + 1].size
               ELSE items[i].size <= items[i + 1].size

\* C32: in every report, cached ones after set_config included, an item is
\* flagged is_large exactly when its size reaches the min_size_threshold the
\* analyzer had at the call, and large_items is the sub-list of the flagged items
C32_LargeIffOverThreshold ==
    \A report \in Reports :
        /\ \A i \in 1..Len(report.first_level_items) :
               LET item == report.first_level_items[i]
               IN item.is_large <=> item.size >= appdata.asked.min_size_threshold
        /\ report.large_items
               = SelectSeq(report.first_level_items, LAMBDA item : item.is_large)

\* C33: every report, scanned or cached, names the three bucket paths and
\* its total_size is the sum of its three bucket sizes
C33_ReportCarriesBuckets ==
    \A report \in Reports :
        /\ report.local_path # "" /\ report.local_low_path # ""
               /\ report.roaming_path # ""
        /\ report.total_size
               = report.local_size + report.local_low_size + report.roaming_size

-----------------------------------------------------------------------------
(* The scan commands of the application (lib.rs): scan_directory, stop_scan
   and get_scan_progress, which share the DiskAnalyzer behind a mutex *)

CommandFrame ==
    UNCHANGED <<mvars, ovars, rvars, lvars, checked, appdata, batch, appmig, log_files>>

\* scan_directory(path, c_drive_mode) is invoked: the checks of the path
\* (lines 41-49)
CmdScanDirectory(path, c_drive_mode) ==
    /\ commands.scan = "idle"
    /\ commands' = IF ~PathExists(fs, path)
                   THEN [commands EXCEPT !.returned = "path_missing"]
                   ELSE IF ~IsDir(fs, path)
                   THEN [commands EXCEPT !.returned = "not_a_directory"]
                   ELSE [commands EXCEPT !.scan = "configure", !.path = path,
                                         !.c_drive_mode = c_drive_mode,
                                         !.returned = "none"]
    /\ UNCHANGED <<lock, svars>>
    /\ CommandFrame

\* scan_directory, the block that configures the analyzer under the lock
\* (lines 54-65)
CmdScanConfigure ==
    /\ commands.scan = "configure"
    /\ lock = "free"
    /\ scan_cancel' = FALSE
    /\ progress' = NoProgress
    /\ analyzer' = [max_depth |-> 5,
                    large_folder_threshold |->
                        IF commands.c_drive_mode THEN 1024 * 1024 ELSE 100 * 1024,
                    is_c_drive_mode |-> commands.c_drive_mode]
    /\ commands' = [commands EXCEPT !.scan = "ready"]
    /\ UNCHANGED <<lock, scan_pc, call, stack, scan_result, scans, called_cancelled,
                   unread>>
    /\ CommandFrame

\* scan_directory takes the lock and awaits scan_directory_async, the guard
\* alive until the scan has returned (lines 70-73)
CmdScanStart ==
    /\ commands.scan = "ready"
    /\ lock = "free"
    /\ lock' = "scan_directory"
    /\ StartScan(commands.path)
    /\ commands' = [commands EXCEPT !.scan = "scanning"]
    /\ UNCHANGED <<analyzer, scan_cancel>>
    /\ CommandFrame

\* the scan has returned: the guard is dropped and the command returns the
\* result (lines 73-86)
CmdScanReturn ==
    /\ commands.scan = "scanning"
    /\ scan_pc = "done"
    /\ lock' = "free"
    /\ commands' = [commands EXCEPT !.scan = "idle", !.returned = scan_result.kind]
    /\ UNCHANGED svars
    /\ CommandFrame

\* stop_scan is invoked and reaches blocking_lock (lines 117-118)
CmdStopScan ==
    /\ commands.stop = "idle"
    /\ commands' = [commands EXCEPT
                       !.stop = "waiting",
                       !.during = commands.scan = "scanning" /\ scan_pc \in {"call", "loop"}]
    /\ UNCHANGED <<lock, svars>>
    /\ CommandFrame

\* stop_scan gets the lock, calls cancel_scan and returns (lines 118-123)
CmdStopScanLocked ==
    /\ commands.stop = "waiting"
    /\ lock = "free"
    /\ scan_cancel' = TRUE
    /\ commands' = [commands EXCEPT !.stop = "idle", !.during = FALSE]
    /\ UNCHANGED <<lock, analyzer, progress, scan_pc, call, stack, scan_result, scans,
                   called_cancelled, unread>>
    /\ CommandFrame

\* get_scan_progress is invoked and reaches blocking_lock (lines 91-92)
CmdGetScanProgress ==
    /\ commands.progress = "idle"
    /\ commands' = [commands EXCEPT !.progress = "waiting"]
    /\ UNCHANGED <<lock, svars>>
    /\ CommandFrame

\* get_scan_progress gets the lock, reads the progress and returns it
\* (lines 92-111)
CmdGetScanProgressLocked ==
    /\ commands.progress = "waiting"
    /\ lock = "free"
    /\ commands' = [commands EXCEPT !.progress = "idle", !.seen = progress]
    /\ UNCHANGED <<lock, svars>>
    /\ CommandFrame

\* the application with a new DiskAnalyzer in its state, on the small tree
CommandInit ==
    /\ fs = ScanTree
    /\ windows = FALSE
    /\ MigrationIdle
    /\ ScannerIdle
    /\ OthersIdle

CommandNext ==
    \/ \E path \in ScanPaths \cup {<<"a", "f1">>}, c_drive_mode \in BOOLEAN :
           CmdScanDirectory(path, c_drive_mode)
    \/ CmdScanConfigure
    \/ CmdScanStart
    \/ EnterDirectory
    \/ NextEntry
    \/ FinishDirectory
    \/ CmdScanReturn
    \/ CmdStopScan
    \/ CmdStopScanLocked
    \/ CmdGetScanProgress
    \/ CmdGetScanProgressLocked

CommandSpec == CommandInit /\ [][CommandNext]_vars

\* C37: a stop_scan command invoked while the scan of a scan_directory
\* command is running is not kept waiting for the analyzer's mutex by that
\* scan: the scan_directory command does not hold the mutex while the scan
\* is in flight, so that the cancel flag can be set before the scan finishes
C37_StopScanNotBlocked ==
    (/\ ScanInFlight
     /\ commands.scan = "scanning"
     /\ commands.stop = "waiting"
     /\ commands.during)
        => lock # "scan_directory"

-----------------------------------------------------------------------------
(* SmartBatchProcessor (performance_optimizer.rs) *)

\* Longest queue of one behaviour
MaxQueue == 3

\* The configurations the processor is made with: the default, and one whose
\* limits a short queue reaches (a batch of 512 KiB or of two items)
BatchConfigs ==
    {DefaultPerformanceConfig, [max_memory_usage_mb |-> 1, batch_size |-> 2]}

\* The items add_item is called with, estimated_size in KiB: two without
\* dependencies and two that depend on another item
BatchItems ==
    {[id |-> "i1", priority |-> 1, estimated_size |-> 100, dependencies |-> <<>>],
     [id |-> "i2", priority |-> 2, estimated_size |-> 500, dependencies |-> <<>>],
     [id |-> "i3", priority |-> 1, estimated_size |-> 100, dependencies |-> <<"i1">>],
     [id |-> "i4", priority |-> 3, estimated_size |-> 100, dependencies |-> <<"i2">>]}

BatchFrame ==
    UNCHANGED <<mvars, svars, ovars, rvars, lvars, checked, appdata, lock, commands,
                appmig, log_files>>

\* check_dependencies
CheckDependencies(item) == item.dependencies = <<>>

\* the queue with item in front of the first item of lower priority
InsertByPriority(queue, item) ==
    LET lower == {i \in 1..Len(queue) : queue[i].priority < item.priority}
        insert_pos == IF lower = {} THEN Len(queue) + 1
                      ELSE CHOOSE i \in lower : \A j \in lower : i <= j
    IN SubSeq(queue, 1, insert_pos - 1) \o <<item>> \o SubSeq(queue, insert_pos, Len(queue))

\* add_item
AddItem(item) ==
    /\ batch.pc = "idle"
    /\ Len(batch.item_queue) < MaxQueue
    /\ \A i \in 1..Len(batch.item_queue) : batch.item_queue[i].id # item.id
    /\ batch' = [batch EXCEPT !.item_queue = InsertByPriority(@, item)]
    /\ BatchFrame

\* get_optimized_batch is called and locks the queue (lines 571-574)
GetOptimizedBatch ==
    /\ batch.pc = "idle"
    /\ batch' = [batch EXCEPT !.pc = "loop", !.batch = <<>>, !.total_size = 0]
    /\ BatchFrame

\* get_optimized_batch returns the batch and the lock is released
ReturnBatch(queue, items, total) ==
    batch' = [batch EXCEPT !.pc = "idle", !.item_queue = queue, !.batch = <<>>,
                           !.total_size = 0, !.returned = items]

\* one turn of the loop of get_optimized_batch (lines 577-598), or its end
BatchTurn ==
    /\ batch.pc = "loop"
    /\ IF batch.item_queue = <<>>
       THEN ReturnBatch(<<>>, batch.batch, batch.total_size)
       ELSE LET item == Head(batch.item_queue)
                queue == Tail(batch.item_queue)
                max_batch_size == (batch.config.max_memory_usage_mb * 1024) \div 2
            IN IF CheckDependencies(item)
               THEN IF batch.total_size + item.estimated_size > max_batch_size
                    THEN ReturnBatch(<<item>> \o queue, batch.batch, batch.total_size)
                    ELSE IF Len(batch.batch) + 1 >= batch.config.batch_size
                    THEN ReturnBatch(queue, Append(batch.batch, item),
                                     batch.total_size + item.estimated_size)
                    ELSE batch' = [batch EXCEPT
                                     !.item_queue = queue,
                                     !.batch = Append(@, item),
                                     !.total_size = @ + item.estimated_size]
               ELSE batch' = [batch EXCEPT !.item_queue = Append(queue, item)]
    /\ BatchFrame

BatchInit ==
    /\ fs = InitialFs(1, FALSE)
    /\ windows = FALSE
    /\ MigrationIdle
    /\ ScannerIdle
    /\ OperatorIdle
    /\ config = DefaultConfig
    /\ RecoveryIdle
    /\ LoggerIdle
    /\ AppRestIdle
    /\ \E cfg \in BatchConfigs : batch = NewSmartBatchProcessor(cfg)

BatchNext ==
    \/ \E item \in BatchItems : AddItem(item)
    \/ GetOptimizedBatch
    \/ BatchTurn

\* get_optimized_batch is a plain loop on the caller's thread: once called it
\* keeps running
BatchSpec == BatchInit /\ [][BatchNext]_vars /\ WF_vars(BatchTurn)

\* C38: every call of get_optimized_batch returns and releases the lock of
\* the queue, whatever the queue holds, items with dependencies included
C38_BatchTerminates == (batch.pc = "loop") ~> (batch.pc = "idle")

-----------------------------------------------------------------------------
(* The log directory: the application logger (logger.rs) and the file of the
   OperationLogger, which run() puts into the same directory (lib.rs 454-459) *)

\* Last week of one behaviour; `now` counts weeks here, and four weeks make
\* a month
MaxLogWeeks == 8

\* LoggerConfig::default().max_files, which init_logger passes to
\* cleanup_old_logs as the literal 5 (lib.rs 445)
MaxLogFiles == 5

\* "dir-mover-<timestamp>.log", the file init_logger creates
AppLogName(t) == "dir-mover-" \o ToString(t) \o ".log"

\* "operations-<year and month>.log", the file of OperationLogger::new
OperationLogName(t) == "operations-" \o ToString(t \div 4) \o ".log"

\* the directory with the file `name` created, or written, at time t
Touch(files, name, t) ==
    {f \in files : f.name # name} \cup {[name |-> name, modified |-> t]}

\* the files cleanup_old_logs lists: those whose extension is "log"
WithLogExtension(files) == {f \in files : EndsWith(f.name, ".log")}

\* cleanup_old_logs: what a directory may hold afterwards.  The oldest files
\* by modification time go until max_files are left; the order among files
\* of one modification time is that of read_dir, which is any
CleanupOldLogs(files, max_files) ==
    LET listed == WithLogExtension(files)
    IN IF Cardinality(listed) <= max_files THEN {files}
       ELSE {files \ gone :
                gone \in {g \in SUBSET listed :
                             /\ Cardinality(listed \ g) = max_files
                             /\ \A old \in g, kept \in listed \ g :
                                    old.modified <= kept.modified}}

LogDirFrame ==
    UNCHANGED <<mvars, svars, ovars, lvars, checked, appdata, lock, commands, batch,
                appmig, config, backup_registry, recovery_states, uuids, rpc, rstate,
                outcome, recoveries>>

\* the application starts `weeks` after the last start: init_logger creates
\* the log file of the session and prunes the directory (lib.rs 427-448)
StartUp(weeks) ==
    /\ now + weeks <= MaxLogWeeks
    /\ now' = now + weeks
    /\ \E io_ok \in BOOLEAN :
         IF io_ok
         THEN log_files' \in CleanupOldLogs(Touch(log_files, AppLogName(now'), now'),
                                            MaxLogFiles)
         ELSE log_files' = log_files
    /\ LogDirFrame

\* write_log of the OperationLogger: a record is appended to the journal
\* file of the month (operation_logger.rs 223-235)
WriteOperationLog ==
    /\ \E io_ok \in BOOLEAN :
         log_files' = IF io_ok THEN Touch(log_files, OperationLogName(now), now)
                      ELSE log_files
    /\ log_files' # log_files
    /\ UNCHANGED now
    /\ LogDirFrame

LogDirInit ==
    /\ fs = InitialFs(1, FALSE)
    /\ windows = FALSE
    /\ MigrationIdle
    /\ ScannerIdle
    /\ OthersIdle

LogDirNext ==
    \/ \E weeks \in {1, 4} : StartUp(weeks)
    \/ WriteOperationLog

LogDirSpec == LogDirInit /\ [][LogDirNext]_vars

\* the names of the operation journals in a directory
OperationJournals(files) == {f.name : f \in {g \in files : StartsWith(g.name, "operations-")}}

\* C40: no step removes an operation journal from the log directory: what
\* the pruning at start-up deletes are application log files only
C40_JournalsSurvivePruning ==
    [][OperationJournals(log_files) \subseteq OperationJournals(log_files')]_vars

-----------------------------------------------------------------------------
(* The migrate_appdata_items command (lib.rs 563-649) *)

\* The lists of items the command is called with: a missing item before and
\* after one that exists, an item without a final component (the root)
\* before and after it, a single item, and no item
ItemLists ==
    {<<<<"p", "m">>, <<"p", "a">>>>, <<<<"p", "a">>, <<"p", "m">>>>,
     <<Root, <<"p", "a">>>>, <<<<"p", "a">>, Root>>, <<<<"p", "a">>>>, <<>>}

\* The options of the command: every list to the other directory with the
\* source kept, and one list with the source deleted, to the source's own
\* directory and to a drive that does not exist
AppDataMigrationOptions ==
    {[source_items |-> items, target_drive |-> <<"q">>, create_symlink |-> FALSE,
      delete_source |-> FALSE] : items \in ItemLists}
    \cup {[source_items |-> <<<<"p", "a">>, <<"p", "m">>>>, target_drive |-> t,
           create_symlink |-> FALSE, delete_source |-> ds] :
              t \in {<<"q">>, <<"p">>, <<"n">>}, ds \in BOOLEAN}

\* validate_migration_options (migration_service.rs 623-652)
ValidateMigrationOptions(f, source, target) ==
    /\ PathStr(source) # ""
    /\ PathStr(target) # ""
    /\ source # target
    /\ ~(PathExists(f, source) /\ PathExists(f, target)
           /\ Canonicalize(f, source) = Canonicalize(f, target))

AppMigrationFrame ==
    UNCHANGED <<svars, ovars, rvars, lvars, checked, appdata, lock, commands, batch,
                log_files>>

\* migrate_appdata_items(options) is invoked: the check of the target drive
\* (lines 569-573) and the counters of the loop
MigrateAppdataItems(options) ==
    /\ appmig.pc = "idle"
    /\ pc \in {"idle", "done"}
    /\ appmig' = IF ~PathExists(fs, options.target_drive)
                 THEN [NoAppMigration EXCEPT
                         !.options = options,
                         !.returned = [kind |-> "target_drive_missing", success |-> FALSE]]
                 ELSE [NoAppMigration EXCEPT
                         !.pc = "loop", !.options = options,
                         !.rest = options.source_items]
    /\ UNCHANGED mvars
    /\ AppMigrationFrame

\* the loop reaches the next item (lines 581-612): an item that does not
\* exist or does not pass validate_migration_options is counted as a failure,
\* an item without a file name ends the command with an error, and for any
\* other item migrate_folder is called
NextItem ==
    /\ appmig.pc = "loop"
    /\ appmig.rest # <<>>
    /\ LET source_path == Head(appmig.rest)
           target_path == Join(appmig.options.target_drive, FileName(source_path))
           Counted(why) ==
               [appmig EXCEPT !.rest = Tail(@), !.failure_count = @ + 1,
                              !.outcomes = Append(@, why)]
       IN IF ~PathExists(fs, source_path)
          THEN appmig' = Counted("missing") /\ UNCHANGED mvars
          ELSE IF source_path = Root
          THEN /\ appmig' = [appmig EXCEPT
                               !.pc = "idle",
                               !.outcomes = Append(@, "no_file_name"),
                               !.returned = [kind |-> "no_file_name", success |-> FALSE]]
               /\ UNCHANGED mvars
          ELSE IF ~ValidateMigrationOptions(fs, source_path, target_path)
          THEN appmig' = Counted("invalid") /\ UNCHANGED mvars
          ELSE /\ MigrateFolder(source_path, target_path, appmig.options.create_symlink,
                                appmig.options.delete_source)
               /\ appmig' = [appmig EXCEPT !.pc = "migrating"]
    /\ AppMigrationFrame

\* migrate_folder has returned (lines 613-630): the item is counted
ItemMigrated ==
    /\ appmig.pc = "migrating"
    /\ pc = "done"
    /\ appmig' = IF result.success
                 THEN [appmig EXCEPT !.pc = "loop", !.rest = Tail(@),
                                     !.success_count = @ + 1,
                                     !.outcomes = Append(@, "migrated")]
                 ELSE [appmig EXCEPT !.pc = "loop", !.rest = Tail(@),
                                     !.failure_count = @ + 1,
                                     !.outcomes = Append(@, "failed")]
    /\ UNCHANGED mvars
    /\ AppMigrationFrame

\* the loop is over: the aggregate result (lines 633-648)
ReturnAggregate ==
    /\ appmig.pc = "loop"
    /\ appmig.rest = <<>>
    /\ appmig' = [appmig EXCEPT
                    !.pc = "idle",
                    !.returned = [kind |-> "result", success |-> appmig.failure_count = 0]]
    /\ UNCHANGED mvars
    /\ AppMigrationFrame

AppMigrationInit ==
    /\ fs = InitialFs(1, FALSE)
    /\ windows = FALSE
    /\ MigrationIdle
    /\ ScannerIdle
    /\ OthersIdle

AppMigrationNext ==
    \/ \E options \in AppDataMigrationOptions : MigrateAppdataItems(options)
    \/ NextItem
    \/ CopyPath
    \/ CopyEntry
    \/ Verify
    \/ Link
    \/ DeleteSource
    \/ ItemMigrated
    \/ ReturnAggregate

AppMigrationSpec == AppMigrationInit /\ [][AppMigrationNext]_vars

\* the command has returned after its loop was entered
LoopLeft == appmig.pc = "idle" /\ appmig.returned.kind \in {"result", "no_file_name"}

\* C39: when migrate_appdata_items has returned after entering its loop, it
\* has attempted every listed item, in the order of the list, and it has
\* returned the aggregate result, whose success is true exactly when every
\* item was migrated successfully
C39_EveryItemAttempted ==
    LoopLeft =>
        /\ Len(appmig.outcomes) = Len(appmig.options.source_items)
        /\ appmig.returned.kind = "result"
        /\ appmig.returned.success
               <=> \A i \in 1..Len(appmig.outcomes) : appmig.outcomes[i] = "migrated"

====
